---- MODULE Spec2Model ----
(***************************************************************************)
(* Athenet: the NpInterval value type (athenet/algorithm/numlike/          *)
(* npinterval.py).  numpy arrays are heap objects with identity; an        *)
(* NpInterval holds references to its lower and upper arrays.              *)
(* Arrays are one-dimensional; their elements are integers.                *)
(***************************************************************************)
EXTENDS Integers, Sequences, FiniteSets, TLC

\* Bounds of the model.
MaxVal == 3
MaxLen == 2

Vals == (0 - MaxVal)..MaxVal
Shapes == 1..MaxLen

VARIABLES
    heap,   \* the numpy arrays alive, by reference (index into this sequence)
    A,      \* the interval bound to name A (self of every operation), or None
    B,      \* the interval bound to name B (other of the binary operations), or None
    R,      \* the value the last operation returned, or None
    arg,    \* the non-interval argument of the last operation (float or ndarray), or None
    op,     \* the last operation performed
    exc     \* the exception the last operation raised, "none" if it returned

vars == <<heap, A, B, R, arg, op, exc>>

\* The derest engine (athenet/algorithm/derest).
VARIABLES
    network,  \* the network handed to the engine: its layers, in declared order
    layers,   \* DerestNetwork.layers: one DerestLayer per network layer
    incep,    \* a DerestInceptionLayer, or None
    pc,       \* where the caller of the engine stands
    inp,      \* the argument of the pass run last (the input bound, the output seed)
    val,      \* the value the pass run last returned
    log,      \* the calls made on the layers so far, in order
    dexc,     \* the exception that ended the run, "none" otherwise
    results   \* what count_derest returned, or None

dvars == <<network, layers, incep, pc, inp, val, log, dexc, results>>
allvars == <<heap, A, B, R, arg, op, exc, network, layers, incep, pc, inp, val, log, dexc, results>>

----------------------------------------------------------------------------
\* Python values.

None == [type |-> "NoneType"]
Float(v) == [type |-> "float", value |-> v]
Ndarray(ref) == [type |-> "ndarray", ref |-> ref]
PyInt(v) == [type |-> "int", value |-> v]

\* NpInterval.__init__: stores the two arrays as given; there is no check.
NpInterval(lower, upper) == [type |-> "NpInterval", lower |-> lower, upper |-> upper]

\* What a call leaves behind: the heap, the value returned, the exception raised.
Return(h, v) == [heap |-> h, res |-> v, exc |-> "none"]
Raise(h, e) == [heap |-> h, res |-> None, exc |-> e]

----------------------------------------------------------------------------
\* numpy, elementwise on same-shaped arrays; every call returns a new array.

Min2(x, y) == IF x <= y THEN x ELSE y
Max2(x, y) == IF x >= y THEN x ELSE y

np_full(n, v) == [i \in 1..n |-> v]
np_zeros(n) == [i \in 1..n |-> 0]
np_add(x, y) == [i \in 1..Len(x) |-> x[i] + y[i]]
np_sub(x, y) == [i \in 1..Len(x) |-> x[i] - y[i]]
np_mul(x, y) == [i \in 1..Len(x) |-> x[i] * y[i]]
np_minimum(x, y) == [i \in 1..Len(x) |-> Min2(x[i], y[i])]
np_maximum(x, y) == [i \in 1..Len(x) |-> Max2(x[i], y[i])]
np_logical_and(p, q) == [i \in 1..Len(p) |-> p[i] /\ q[i]]
np_le0(x) == [i \in 1..Len(x) |-> x[i] <= 0]
np_ge0(x) == [i \in 1..Len(x) |-> x[i] >= 0]
\* np.copyto(dst, src, where=mask): dst is written in place where mask holds.
np_copyto(dst, src, where) == [i \in 1..Len(dst) |-> IF where[i] THEN src[i] ELSE dst[i]]

\* A new array on the heap; its reference is the new length of the heap.
Alloc(h, arr) == Append(h, arr)

\* A new NpInterval over two new arrays.
NewInterval(h, lo, up) ==
    LET h1 == Alloc(h, lo)
        h2 == Alloc(h1, up)
    IN  Return(h2, NpInterval(Len(h1), Len(h2)))

----------------------------------------------------------------------------
\* NpInterval.

shape(h, self) == <<Len(h[self.lower])>>

HasLowerUpper(x) == "lower" \in DOMAIN x /\ "upper" \in DOMAIN x

\* __add__ written in place: self.lower += other.lower; self.upper += other.upper; return self.
__add__InPlace(h, self, other) ==
    IF ~HasLowerUpper(other) THEN Raise(h, "AttributeError")
    ELSE Return([h EXCEPT ![self.lower] = np_add(h[self.lower], h[other.lower]),
                          ![self.upper] = np_add(h[self.upper], h[other.upper])], self)

\* __add__ with the upper bound taken from other.lower.
__add__UpperFromLower(h, self, other) ==
    IF ~HasLowerUpper(other) THEN Raise(h, "AttributeError")
    ELSE NewInterval(h, np_add(h[self.lower], h[other.lower]),
                        np_add(h[self.upper], h[other.lower]))

__add__(h, self, other) ==
    IF ~HasLowerUpper(other) THEN Raise(h, "AttributeError")
    ELSE NewInterval(h, np_add(h[self.lower], h[other.lower]),
                        np_add(h[self.upper], h[other.upper]))

\* antiadd with the bounds of other exchanged, as in __sub__.
antiaddCrossed(h, self, other) ==
    NewInterval(h, np_sub(h[self.lower], h[other.upper]),
                   np_sub(h[self.upper], h[other.lower]))

antiadd(h, self, other) ==
    NewInterval(h, np_sub(h[self.lower], h[other.lower]),
                   np_sub(h[self.upper], h[other.upper]))

\* __sub__ computed like antiadd: bound by bound.
__sub__BoundByBound(h, self, other) ==
    IF ~HasLowerUpper(other) THEN Raise(h, "AttributeError")
    ELSE NewInterval(h, np_sub(h[self.lower], h[other.lower]),
                        np_sub(h[self.upper], h[other.upper]))

__sub__(h, self, other) ==
    IF ~HasLowerUpper(other) THEN Raise(h, "AttributeError")
    ELSE NewInterval(h, np_sub(h[self.lower], h[other.upper]),
                        np_sub(h[self.upper], h[other.lower]))

\* __mul__ with only the corners ll and uu.
__mul__TwoCorners(h, self, other) ==
    IF ~HasLowerUpper(other) THEN Raise(h, "AttributeError")
    ELSE LET ll == np_mul(h[self.lower], h[other.lower])
             uu == np_mul(h[self.upper], h[other.upper])
         IN  NewInterval(h, np_minimum(ll, uu), np_maximum(ll, uu))

__mul__(h, self, other) ==
    IF ~HasLowerUpper(other) THEN Raise(h, "AttributeError")
    ELSE LET ll == np_mul(h[self.lower], h[other.lower])
             lu == np_mul(h[self.lower], h[other.upper])
             ul == np_mul(h[self.upper], h[other.lower])
             uu == np_mul(h[self.upper], h[other.upper])
         IN  NewInterval(h, np_minimum(np_minimum(ll, lu), np_minimum(ul, uu)),
                            np_maximum(np_maximum(ll, lu), np_maximum(ul, uu)))

__div__(h, self, other) == Raise(h, "NotImplementedError")
__rdiv__(h, self, other) == Raise(h, "NotImplementedError")
reciprocal(h, self) == Raise(h, "NotImplementedError")
dot(h, self, other) == Raise(h, "NotImplementedError")

np_logical_or(p, q) == [i \in 1..Len(p) |-> p[i] \/ q[i]]
\* where_zero with the two comparisons exchanged.
where_zeroExchanged(lower, upper) == np_logical_and(np_ge0(lower), np_le0(upper))
\* where_zero with logical_or for logical_and.
where_zeroOr(lower, upper) == np_logical_or(np_le0(lower), np_ge0(upper))

where_zero(lower, upper) == np_logical_and(np_le0(lower), np_ge0(upper))

square(h, self) ==
    LET uu == np_mul(h[self.upper], h[self.upper])
        ll == np_mul(h[self.lower], h[self.lower])
        r == NewInterval(h, np_minimum(ll, uu), np_maximum(ll, uu))
        wz == where_zero(h[self.lower], h[self.upper])
        n == Len(h[self.lower])
    IN  Return([r.heap EXCEPT ![r.res.lower] = np_copyto(@, np_zeros(n), wz)], r.res)

\* self.lower[at] = other.lower; self.upper[at] = other.upper, other of shape (1,).
__setitem__(h, self, at, other) ==
    Return([h EXCEPT ![self.lower][at] = h[other.lower][1],
                     ![self.upper][at] = h[other.upper][1]], None)

----------------------------------------------------------------------------
\* No interval has been built.
NoIntervals ==
    /\ heap = <<>>
    /\ A = None
    /\ B = None
    /\ R = None
    /\ arg = None
    /\ op = "new"
    /\ exc = "none"

\* No engine has been built.
NoEngine ==
    /\ network = <<>>
    /\ layers = <<>>
    /\ incep = None
    /\ pc = "idle"
    /\ inp = None
    /\ val = None
    /\ log = <<>>
    /\ dexc = "none"
    /\ results = None

Init == NoIntervals /\ NoEngine

\* A = NpInterval(np.full(shape, lo), np.full(shape, hi))
ConstructA ==
    /\ op = "new" /\ A = None
    /\ \E n \in Shapes, lo \in Vals, hi \in Vals :
          LET r == NewInterval(heap, np_full(n, lo), np_full(n, hi))
          IN  /\ heap' = r.heap
              /\ A' = r.res
    /\ UNCHANGED <<B, R, arg, op, exc>>
    /\ UNCHANGED dvars

\* B = NpInterval(np.full(A.shape, lo), np.full(A.shape, hi))
ConstructB ==
    /\ op = "new" /\ A # None /\ B = None
    /\ \E lo \in Vals, hi \in Vals :
          LET n == shape(heap, A)[1]
              r == NewInterval(heap, np_full(n, lo), np_full(n, hi))
          IN  /\ heap' = r.heap
              /\ B' = r.res
    /\ UNCHANGED <<A, R, arg, op, exc>>
    /\ UNCHANGED dvars

\* The state after a call that left r behind.
Called(name, r, a) ==
    /\ heap' = r.heap
    /\ R' = r.res
    /\ exc' = r.exc
    /\ op' = name
    /\ arg' = a
    /\ UNCHANGED <<A, B>>
    /\ UNCHANGED dvars

Ready2 == op = "new" /\ A # None /\ B # None
Ready1 == op = "new" /\ A # None /\ B = None

\* R = A + B
Add == Ready2 /\ Called("add", __add__(heap, A, B), None)
\* R = A - B
Sub == Ready2 /\ Called("sub", __sub__(heap, A, B), None)
\* R = A * B
Mul == Ready2 /\ Called("mul", __mul__(heap, A, B), None)
\* R = B; R += A   (NpInterval defines no __iadd__: Python evaluates R = R + A)
IAdd == Ready2 /\ Called("iadd", __add__(heap, B, A), None)
\* R = B; R *= A   (NpInterval defines no __imul__: Python evaluates R = R * A)
IMul == Ready2 /\ Called("imul", __mul__(heap, B, A), None)
\* R = A.square()
Square == Ready1 /\ Called("square", square(heap, A), None)

\* The operands of TestMultiplying.test_case and TestSquare.test_case, flattened.
test_case_al == <<1, -2, -1, -42, -5, -1>>
test_case_au == <<2, -1, 1, 4, -4, 7>>
test_case_bl == <<1, 1, 4, -1, -2, -13>>
test_case_bu == <<2, 2, 5, -1, -1, 1>>

\* A = NpInterval(al, au)
TestCaseA ==
    /\ op = "new" /\ A = None
    /\ LET r == NewInterval(heap, test_case_al, test_case_au)
       IN  /\ heap' = r.heap
           /\ A' = r.res
    /\ UNCHANGED <<B, R, arg, op, exc>>
    /\ UNCHANGED dvars

\* B = NpInterval(bl, bu)
TestCaseB ==
    /\ op = "new" /\ A # None /\ B = None
    /\ shape(heap, A) = <<Len(test_case_bl)>>
    /\ LET r == NewInterval(heap, test_case_bl, test_case_bu)
       IN  /\ heap' = r.heap
           /\ B' = r.res
    /\ UNCHANGED <<A, R, arg, op, exc>>
    /\ UNCHANGED dvars

\* A float b, or the array np.full(A.shape, b): the concrete operand of A * b, A / b.
Concrete(h, kind, b) ==
    IF kind = "float" THEN Return(h, Float(b))
    ELSE LET h1 == Alloc(h, np_full(shape(h, A)[1], b))
         IN  Return(h1, Ndarray(Len(h1)))

\* R = A * b
MulConcrete ==
    /\ Ready1
    /\ \E kind \in {"float", "ndarray"}, b \in Vals \ {0} :
          LET c == Concrete(heap, kind, b)
          IN  Called("mul_concrete", __mul__(c.heap, A, c.res), c.res)

\* R = A / b
DivConcrete ==
    /\ Ready1
    /\ \E kind \in {"float", "ndarray"}, b \in Vals \ {0} :
          LET c == Concrete(heap, kind, b)
          IN  Called("div_concrete", __div__(c.heap, A, c.res), c.res)

\* R = a / A   (float.__div__ returns NotImplemented, Python calls A.__rdiv__(a))
RDiv ==
    /\ Ready1
    /\ \E a \in Vals : Called("rdiv", __rdiv__(heap, A, Float(a)), Float(a))

\* R = A.reciprocal()
Reciprocal == Ready1 /\ Called("reciprocal", reciprocal(heap, A), None)

\* R = A.dot(W), W = np.asarray([w, ...]) of A's length (weights enumerated up to MaxLen)
Dot ==
    /\ Ready1
    /\ shape(heap, A)[1] <= MaxLen
    /\ \E W \in [1..shape(heap, A)[1] -> Vals] :
          LET h1 == Alloc(heap, W)
          IN  Called("dot", dot(h1, A, Ndarray(Len(h1))), Ndarray(Len(h1)))

ArithOps == {"add", "sub", "mul", "iadd", "imul", "square"}

\* R[at] = NpInterval(np.asarray([-at]), np.asarray([at])), on the result of an operator
SetItem ==
    /\ op \in ArithOps /\ exc = "none"
    /\ \E at \in 1..shape(heap, R)[1] :
          LET x == NewInterval(heap, <<0 - at>>, <<at>>)
              r == __setitem__(x.heap, R, at, x.res)
          IN  /\ heap' = r.heap
              /\ exc' = r.exc
              /\ arg' = PyInt(at)
    /\ op' = "setitem"
    /\ UNCHANGED <<A, B, R>>
    /\ UNCHANGED dvars

Next ==
    \/ ConstructA
    \/ ConstructB
    \/ TestCaseA
    \/ TestCaseB
    \/ Add
    \/ Sub
    \/ Mul
    \/ IAdd
    \/ IMul
    \/ Square
    \/ MulConcrete
    \/ DivConcrete
    \/ RDiv
    \/ Reciprocal
    \/ Dot
    \/ SetItem

Spec == Init /\ [][Next]_vars

----------------------------------------------------------------------------
\* Reading the state.

Lo(X) == heap[X.lower]
Up(X) == heap[X.upper]
Idx(X) == 1..Len(Lo(X))
Valid(X) == \A i \in Idx(X) : Lo(X)[i] <= Up(X)[i]
Point(X) == \A i \in Idx(X) : Lo(X)[i] = Up(X)[i]
ContainsZero(X, i) == Lo(X)[i] <= 0 /\ 0 <= Up(X)[i]
Returned(name) == op = name /\ exc = "none"

\* self and other of the call the operation made.
Self == IF op \in {"iadd", "imul"} THEN B ELSE A
Other == IF op \in {"iadd", "imul"} THEN A ELSE B

SetMin(S) == CHOOSE x \in S : \A y \in S : x <= y
SetMax(S) == CHOOSE x \in S : \A y \in S : x >= y

\* The exact value of the operation on concrete a, b.
Exact(a, b) ==
    CASE op \in {"add", "iadd"} -> a + b
      [] op = "sub" -> a - b
      [] op \in {"mul", "imul"} -> a * b
      [] op = "square" -> a * a

\* The values the operation takes at element i over the operand intervals.
Image(i) ==
    IF op = "square" THEN {Exact(a, a) : a \in Lo(A)[i]..Up(A)[i]}
    ELSE {Exact(a, b) : a \in Lo(Self)[i]..Up(Self)[i], b \in Lo(Other)[i]..Up(Other)[i]}

BinaryOps == {"add", "sub", "mul", "iadd", "imul"}
ValidOperands == Valid(A) /\ (op \in BinaryOps => Valid(B))
PointOperands == Point(A) /\ (op \in BinaryOps => Point(B))

----------------------------------------------------------------------------
\* C1: for valid operands (lower <= upper elementwise) the result of add, sub,
\* mul by an interval and square has lower <= upper elementwise.
C1_LowerLeUpper ==
    (op \in ArithOps /\ ValidOperands) => (exc = "none" /\ Valid(R))

C1_Witness ==
    /\ Returned("sub") /\ ValidOperands /\ Valid(R)
    /\ \E i \in Idx(A) : Lo(A)[i] < Up(A)[i] /\ Lo(B)[i] < Up(B)[i]

\* C2: soundness: for valid A, B and concrete a in A, b in B, the exact value
\* a+b, a-b, a*b, a*a lies in the interval the operator returned.
C2_Sound ==
    (op \in ArithOps /\ ValidOperands) =>
        /\ exc = "none"
        /\ \A i \in Idx(R) : \A v \in Image(i) : Lo(R)[i] <= v /\ v <= Up(R)[i]

C2_Witness ==
    /\ Returned("mul") /\ ValidOperands
    /\ \E i \in Idx(A) : /\ Lo(A)[i] < 0 /\ 0 < Up(A)[i]
                          /\ Lo(B)[i] < 0 /\ 0 < Up(B)[i]
                          /\ Cardinality(Image(i)) > 4

\* C3: tightness: add is [A.lower+B.lower, A.upper+B.upper], sub is
\* [A.lower-B.upper, A.upper-B.lower], mul is the min/max of the four corner
\* products, and both bounds are values the operation takes on some concrete pair.
C3_Tight ==
    (op \in BinaryOps /\ ValidOperands) =>
        /\ exc = "none"
        /\ \A i \in Idx(R) :
              LET sl == Lo(Self)[i]
                  su == Up(Self)[i]
                  ol == Lo(Other)[i]
                  ou == Up(Other)[i]
                  corners == {sl * ol, sl * ou, su * ol, su * ou}
              IN  /\ op \in {"add", "iadd"} => Lo(R)[i] = sl + ol /\ Up(R)[i] = su + ou
                  /\ op = "sub" => Lo(R)[i] = sl - ou /\ Up(R)[i] = su - ol
                  /\ op \in {"mul", "imul"} =>
                        Lo(R)[i] = SetMin(corners) /\ Up(R)[i] = SetMax(corners)
                  /\ Lo(R)[i] = SetMin(Image(i))
                  /\ Up(R)[i] = SetMax(Image(i))

\* [1,2] * [-3,-1] = [-6,-1]
C3_Witness ==
    /\ Returned("mul")
    /\ Lo(A)[1] = 1 /\ Up(A)[1] = 2
    /\ Lo(B)[1] = 0 - 3 /\ Up(B)[1] = 0 - 1
    /\ Lo(R)[1] = 0 - 6 /\ Up(R)[1] = 0 - 1

\* C4: square: where the interval contains zero the result is
\* [0, max(lower^2, upper^2)], elsewhere [min(lower^2, upper^2), max(lower^2, upper^2)].
C4_Square ==
    Returned("square") =>
        \A i \in Idx(R) :
            LET l2 == Lo(A)[i] * Lo(A)[i]
                u2 == Up(A)[i] * Up(A)[i]
            IN  /\ Up(R)[i] = Max2(l2, u2)
                /\ Lo(R)[i] = IF ContainsZero(A, i) THEN 0 ELSE Min2(l2, u2)

\* square([-2,3]) = [0,9]
C4_Witness ==
    /\ Returned("square")
    /\ Lo(A)[1] = 0 - 2 /\ Up(A)[1] = 3
    /\ Lo(R)[1] = 0 /\ Up(R)[1] = 9

\* C8: if the operands are point intervals, the result of add, sub, mul and
\* square is a point interval holding the exact result on the points.
C8_PointExact ==
    (op \in ArithOps /\ PointOperands) =>
        /\ exc = "none"
        /\ Point(R)
        /\ \A i \in Idx(R) : Lo(R)[i] = Exact(Lo(Self)[i], IF op = "square" THEN 0 ELSE Lo(Other)[i])

C8_Witness ==
    /\ op \in ArithOps /\ PointOperands /\ Point(R)
    /\ op = "square" /\ Lo(A)[1] = 2 /\ Lo(R)[1] = 4

\* C9: add, sub, mul, square and the spellings R += A, R *= A are pure and
\* shape-preserving: the call returns, the operands and their arrays are as they
\* were, the result has the operands' shape, and an element assignment into the
\* result afterwards writes the result and leaves the operands' arrays as they were.
OperandRefs ==
    (IF A = None THEN {} ELSE {A.lower, A.upper}) \cup (IF B = None THEN {} ELSE {B.lower, B.upper})

C9_Pure ==
    [][ /\ (op = "new" /\ op' \in ArithOps) =>
              /\ exc' = "none"
              /\ A' = A /\ B' = B
              /\ \A r \in OperandRefs : heap'[r] = heap[r]
              /\ shape(heap', R') = shape(heap, A)
        /\ (op \in ArithOps /\ op' = "setitem") =>
              /\ A' = A /\ B' = B
              /\ \A r \in OperandRefs : heap'[r] = heap[r]
              /\ heap'[R.lower][arg'.value] = 0 - arg'.value
              /\ heap'[R.upper][arg'.value] = arg'.value
      ]_vars

\* A = [1,2], B = [2,3] of shape (2,) as in test_shape; R[2] = [-2,2] assigned afterwards.
C9_Witness ==
    /\ op = "setitem" /\ B # None /\ arg = PyInt(2)
    /\ Lo(A) = <<1, 1>> /\ Up(A) = <<2, 2>>
    /\ Lo(B) = <<2, 2>> /\ Up(B) = <<3, 3>>
    /\ Lo(R) = <<3, 0 - 2>> /\ Up(R) = <<5, 2>>

----------------------------------------------------------------------------
\* The concrete operand at element i: the float, or the array's element.
ArgAt(i) == IF arg.type = "float" THEN arg.value ELSE heap[arg.ref][i]

\* q is the quotient n / d.
IsQuotient(q, n, d) == q * d = n

\* C5: A * b and A / b for a concrete non-zero b return [A.lower o b, A.upper o b]
\* when b > 0 and [A.upper o b, A.lower o b] when b < 0, with lower <= upper.
C5_ConcreteMulDiv ==
    (op \in {"mul_concrete", "div_concrete"} /\ Valid(A)) =>
        /\ exc = "none"
        /\ Valid(R)
        /\ \A i \in Idx(A) :
              LET b == ArgAt(i)
                  x == IF b > 0 THEN Lo(A)[i] ELSE Up(A)[i]
                  y == IF b > 0 THEN Up(A)[i] ELSE Lo(A)[i]
              IN  IF op = "mul_concrete"
                  THEN Lo(R)[i] = x * b /\ Up(R)[i] = y * b
                  ELSE IsQuotient(Lo(R)[i], x, b) /\ IsQuotient(Up(R)[i], y, b)

RECURSIVE SumTo(_, _)
SumTo(f, n) == IF n = 0 THEN 0 ELSE f[n] + SumTo(f, n - 1)

\* C6: A.dot(W) is the sign split: lower = lower.W+ + upper.W-, upper = upper.W+ + lower.W-.
C6_DotSignSplit ==
    op = "dot" =>
        /\ exc = "none"
        /\ LET W == heap[arg.ref]
               Wp == [i \in Idx(A) |-> Max2(W[i], 0)]
               Wm == [i \in Idx(A) |-> Min2(W[i], 0)]
               n == Len(W)
           IN  /\ Lo(R)[1] = SumTo(np_mul(Lo(A), Wp), n) + SumTo(np_mul(Up(A), Wm), n)
               /\ Up(R)[1] = SumTo(np_mul(Up(A), Wp), n) + SumTo(np_mul(Lo(A), Wm), n)

\* C7: for a concrete a and an interval whose bounds have the same sign, a / A is
\* [a/A.lower, a/A.upper] when a < 0 and [a/A.upper, a/A.lower] otherwise;
\* reciprocal is the case a = 1.
SameSign(X) == \A i \in Idx(X) : (0 < Lo(X)[i] /\ 0 < Up(X)[i]) \/ (Lo(X)[i] < 0 /\ Up(X)[i] < 0)

C7_RDiv ==
    (op \in {"rdiv", "reciprocal"} /\ Valid(A) /\ SameSign(A)) =>
        /\ exc = "none"
        /\ Valid(R)
        /\ \A i \in Idx(A) :
              LET a == IF op = "rdiv" THEN arg.value ELSE 1
              IN  /\ IsQuotient(Lo(R)[i], a, IF a < 0 THEN Lo(A)[i] ELSE Up(A)[i])
                  /\ IsQuotient(Up(R)[i], a, IF a < 0 THEN Up(A)[i] ELSE Lo(A)[i])

\* C10: no interval object with lower > upper at some element exists: the
\* constructor raises instead of returning one.
C10_NoInvalidInterval ==
    \A X \in {A, B} : X # None => Valid(X)

----------------------------------------------------------------------------
\* The derest engine: athenet/algorithm/derest.

MaxLayers == 3    \* layers of a network
MaxBatch == 2     \* batch rows of an output seed
MaxBranches == 2  \* branches of an Inception layer

Tuple(items) == [type |-> "tuple", items |-> items]
isinstance_tuple(a) == a.type = "tuple"

\* An interval as the engine sees it: what it holds is decided by the
\* transforms alone, so its content is the term that says how it was made.
Interval(data) == [type |-> "Interval", data |-> data]

\* The classes of athenet.layers that get_derest_layer and count_derest know.
RegisteredKinds ==
    {"Softmax", "ReLU", "PoolingLayer", "LRN", "ConvolutionalLayer", "Dropout",
     "FullyConnectedLayer", "InceptionLayer"}

\* A layer of the network: its class, its identity, its declared shapes and,
\* for an InceptionLayer, its branches.
Layer(kind, id, input_shape, output_shape, layer_lists) ==
    [kind |-> kind, id |-> id, input_shape |-> input_shape,
     output_shape |-> output_shape, layer_lists |-> layer_lists]

\* The number of channels of a shape: n of (h, w, n), or the integer itself.
channels(s) == IF isinstance_tuple(s) THEN s.items[3] ELSE s.value

\* The shape a layer of a class declares for its output, given its input's.
output_shape_of(kind, input_shape) ==
    CASE kind = "FullyConnectedLayer" -> PyInt(2)
      [] kind = "ConvolutionalLayer" -> Tuple(<<1, 1, 2>>)
      [] kind = "InceptionLayer" -> Tuple(<<1, 1, 4>>)
      [] OTHER -> input_shape

\* "Layer" is a layer class the engine has no transform for.
NetworkKinds == {"FullyConnectedLayer", "ConvolutionalLayer", "ReLU", "InceptionLayer", "Layer"}

\* The layers of a network or of a branch, of the given classes: each layer's
\* input shape is its predecessor's output shape; id says where the layer is.
RECURSIVE Layers(_, _, _)

\* The two branches of the InceptionLayer of a network.
demo_layer_lists(id, input_shape) ==
    << Layers(<<"FullyConnectedLayer">>, id \o <<1>>, input_shape),
       Layers(<<"ConvolutionalLayer", "ReLU">>, id \o <<2>>, input_shape) >>

Layers(kinds, id, input_shape) ==
    IF kinds = <<>> THEN <<>>
    ELSE LET rest == Layers(SubSeq(kinds, 1, Len(kinds) - 1), id, input_shape)
             i == Len(kinds)
             kind == kinds[i]
             n_in == IF i = 1 THEN input_shape ELSE rest[i - 1].output_shape
         IN  Append(rest,
                    Layer(kind, id \o <<i>>, n_in, output_shape_of(kind, n_in),
                          IF kind = "InceptionLayer"
                          THEN demo_layer_lists(id \o <<i>>, n_in)
                          ELSE <<>>))

\* The networks the engine is built on.
Networks ==
    { Layers(kinds, <<>>, Tuple(<<1, 1, 1>>)) :
        kinds \in UNION { [1..n -> NetworkKinds] : n \in 1..MaxLayers } }

\* The branches an InceptionLayer is made of.
BranchKinds ==
    { <<"ReLU">>, <<"ConvolutionalLayer">>, <<"ConvolutionalLayer", "ReLU">>,
      <<"FullyConnectedLayer">>, <<"Layer">> }

\* InceptionLayer: its output has the channels of all its branches.
InceptionLayer(branches, input_shape) ==
    LET layer_lists == [k \in 1..Len(branches) |-> Layers(branches[k], <<0, k>>, input_shape)]
        n == [k \in 1..Len(branches) |->
                 channels(layer_lists[k][Len(layer_lists[k])].output_shape)]
    IN  Layer("InceptionLayer", <<0>>, input_shape,
              Tuple(<<1, 1, SumTo(n, Len(branches))>>), layer_lists)

InceptionLayers ==
    { InceptionLayer(branches, Tuple(<<1, 1, 1>>)) :
        branches \in UNION { [1..n -> BranchKinds] : n \in 1..MaxBranches } }

\* What a call on an engine object leaves behind: the object, the value
\* returned, the exception raised, the transforms it called, in order.
Done(self, v, calls) == [self |-> self, res |-> v, exc |-> "none", calls |-> calls]
Failed(self, e, calls) == [self |-> self, res |-> None, exc |-> e, calls |-> calls]

\* One call of a transform: which, on which layer, with which arguments, and
\* what it returned.
Call(fn, layer, input, activations, input_shape, res) ==
    [fn |-> fn, layer |-> layer.id, input |-> input, activations |-> activations,
     input_shape |-> input_shape, res |-> res]

\* athenet.algorithm.derest.activation.count_activation(input, layer): the
\* forward transform of the layer's class applied to input.
count_activation(input, layer) ==
    IF layer.kind \in RegisteredKinds
    THEN Done(None,
              Interval([c \in 1..channels(layer.output_shape) |->
                            [by |-> layer.id, c |-> c, of |-> input.data]]),
              <<>>)
    ELSE Failed(None, "NotImplementedError", <<>>)

\* athenet.algorithm.derest.derivative.count_derivative(output, activations,
\* input_shape, layer): the backward transform of the layer's class; its
\* result has the shape input_shape, (batches, n, ...).
count_derivative(output, activations, input_shape, layer) ==
    IF layer.kind \in RegisteredKinds
    THEN Done(None,
              Interval([b \in 1..input_shape.items[1] |->
                          [c \in 1..input_shape.items[2] |->
                              [by |-> layer.id, c |-> c, of |-> output.data[b],
                               at |-> activations]]]),
              <<>>)
    ELSE Failed(None, "NotImplementedError", <<>>)

\* network.py, _add_tuples.
_add_tuples(a, b) ==
    LET a1 == IF ~isinstance_tuple(a) THEN Tuple(<<a.value>>) ELSE a
        b1 == IF ~isinstance_tuple(b) THEN Tuple(<<b.value>>) ELSE b
    IN  Tuple(a1.items \o b1.items)

\* (h, w, n) becomes (n, h, w); anything else is returned as it is.
_change_order(a) ==
    IF isinstance_tuple(a) /\ Len(a.items) = 3
    THEN Tuple(<<a.items[3], a.items[1], a.items[2]>>)
    ELSE a

\* DerestLayer.__init__.
DerestLayer(layer) == [layer |-> layer, activations |-> None, derivatives |-> None]

\* DerestLayer.count_activation that hands its input on instead of what the
\* transform returned.
DerestLayer_count_activationHandsOnInput(self, input) ==
    LET self1 == [self EXCEPT !.activations = input]
        r == count_activation(input, self1.layer)
    IN  [self |-> self1, res |-> IF r.exc = "none" THEN input ELSE None, exc |-> r.exc,
         calls |-> <<Call("count_activation", self1.layer, input, None, None, r.res)>>]

\* DerestLayer.count_activation.
DerestLayer_count_activation(self, input) ==
    LET self1 == [self EXCEPT !.activations = input]
        r == count_activation(input, self1.layer)
    IN  [self |-> self1, res |-> r.res, exc |-> r.exc,
         calls |-> <<Call("count_activation", self1.layer, input, None, None, r.res)>>]

\* DerestLayer.count_derivatives with the output given where the activations
\* belong.
DerestLayer_count_derivativesNoActivations(self, output, input_shape) ==
    LET self1 == [self EXCEPT !.derivatives = output]
        r == count_derivative(output, output, input_shape, self1.layer)
    IN  [self |-> self1, res |-> r.res, exc |-> r.exc,
         calls |-> <<Call("count_derivative", self1.layer, output, output,
                          input_shape, r.res)>>]

\* DerestLayer.count_derivatives.
DerestLayer_count_derivatives(self, output, input_shape) ==
    LET self1 == [self EXCEPT !.derivatives = output]
        r == count_derivative(output, self1.activations, input_shape, self1.layer)
    IN  [self |-> self1, res |-> r.res, exc |-> r.exc,
         calls |-> <<Call("count_derivative", self1.layer, output, self1.activations,
                          input_shape, r.res)>>]

\* DerestNetwork.__init__: self.layers.
DerestNetwork(net) == [i \in 1..Len(net) |-> DerestLayer(net[i])]

\* DerestNetwork._get_layer_input_shape; i counts from 1 here.
_get_layer_input_shape(self, i) ==
    IF i > 1 THEN self[i - 1].layer.output_shape ELSE self[i].layer.input_shape

\* DerestNetwork.count_activations: the loop from layer i on.
RECURSIVE count_activations_from(_, _, _, _)
count_activations_from(self, i, input, calls) ==
    IF i > Len(self) THEN Done(self, input, calls)
    ELSE LET r == DerestLayer_count_activation(self[i], input)
             self1 == [self EXCEPT ![i] = r.self]
         IN  IF r.exc # "none" THEN Failed(self1, r.exc, calls \o r.calls)
             ELSE count_activations_from(self1, i + 1, r.res, calls \o r.calls)

count_activations(self, input) == count_activations_from(self, 1, input, <<>>)

\* DerestNetwork.count_derivatives: the loop from layer i down.
RECURSIVE count_derivatives_from(_, _, _, _, _)
count_derivatives_from(self, i, outp, batches, calls) ==
    IF i < 1 THEN Done(self, outp, calls)
    ELSE LET input_shape ==
                 _add_tuples(batches, _change_order(_get_layer_input_shape(self, i)))
             r == DerestLayer_count_derivatives(self[i], outp, input_shape)
             self1 == [self EXCEPT ![i] = r.self]
         IN  IF r.exc # "none" THEN Failed(self1, r.exc, calls \o r.calls)
             ELSE count_derivatives_from(self1, i - 1, r.res, batches, calls \o r.calls)

count_derivatives(self, outp, batches) ==
    count_derivatives_from(self, Len(self), outp, batches, <<>>)

----------------------------------------------------------------------------
\* The indicators: DerestLayer.count_derest_fc and count_derest_conv.

MaxBound == 1   \* the bounds of the intervals the indicators are computed from

\* An interval over numbers: two arrays of one shape.
NumInterval(lower, upper) == [type |-> "Interval", lower |-> lower, upper |-> upper]

\* A buffer holds either numbers or the term that says how it was made.
IsTerm(x) == "data" \in DOMAIN x

Min4(a, b, c, d) == Min2(Min2(a, b), Min2(c, d))
Max4(a, b, c, d) == Max2(Max2(a, b), Max2(c, d))

\* Interval.__getitem__ and Interval.reshape of a vector to a column or a row:
\* the elements stay in their order.
Interval__getitem__(self, i) == NumInterval(self.lower[i], self.upper[i])

\* act.dot(der) for a column act and a row der: the matrix of the interval
\* products act[a] * der[j].
Interval_dot(act, der) ==
    NumInterval(
        [a \in DOMAIN act.lower |-> [j \in DOMAIN der.lower |->
            Min4(act.lower[a] * der.lower[j], act.lower[a] * der.upper[j],
                 act.upper[a] * der.lower[j], act.upper[a] * der.upper[j])]],
        [a \in DOMAIN act.lower |-> [j \in DOMAIN der.lower |->
            Max4(act.lower[a] * der.lower[j], act.lower[a] * der.upper[j],
                 act.upper[a] * der.lower[j], act.upper[a] * der.upper[j])]])

\* Interval * Interval on two matrices of one shape, element by element.
Interval__mul__(self, other) ==
    NumInterval(
        [r \in DOMAIN self.lower |-> [c \in DOMAIN self.lower[r] |->
            Min4(self.lower[r][c] * other.lower[r][c], self.lower[r][c] * other.upper[r][c],
                 self.upper[r][c] * other.lower[r][c], self.upper[r][c] * other.upper[r][c])]],
        [r \in DOMAIN self.lower |-> [c \in DOMAIN self.lower[r] |->
            Max4(self.lower[r][c] * other.lower[r][c], self.lower[r][c] * other.upper[r][c],
                 self.upper[r][c] * other.lower[r][c], self.upper[r][c] * other.upper[r][c])]])

\* Interval * ndarray on two matrices of one shape: the bounds change places
\* where the number is negative.
Interval_mul_array(self, W) ==
    NumInterval(
        [r \in DOMAIN self.lower |-> [c \in DOMAIN self.lower[r] |->
            Min2(self.lower[r][c] * W[r][c], self.upper[r][c] * W[r][c])]],
        [r \in DOMAIN self.lower |-> [c \in DOMAIN self.lower[r] |->
            Max2(self.lower[r][c] * W[r][c], self.upper[r][c] * W[r][c])]])

\* Interval * number on a matrix.
Interval_mul_number(self, w) ==
    Interval_mul_array(self, [r \in DOMAIN self.lower |-> [c \in DOMAIN self.lower[r] |-> w]])

\* Interval.eval(): the pair (lower, upper).
Interval_eval(self) == <<self.lower, self.upper>>

\* numpy.amax(x, 0) for x a pair of matrices: the greater of the two, element
\* by element.
numpy_amax(x) ==
    [r \in DOMAIN x[1] |-> [c \in DOMAIN x[1][r] |-> Max2(x[1][r][c], x[2][r][c])]]

\* numpy.sum of a matrix.
RECURSIVE numpy_sum_row(_, _)
numpy_sum_row(row, n) == IF n = 0 THEN 0 ELSE row[n] + numpy_sum_row(row, n - 1)
RECURSIVE numpy_sum_rows(_, _)
numpy_sum_rows(x, n) ==
    IF n = 0 THEN 0 ELSE numpy_sum_row(x[n], Len(x[n])) + numpy_sum_rows(x, n - 1)
numpy_sum(x) == numpy_sum_rows(x, Len(x))

\* numpy.zeros_like(W) for a matrix W.
numpy_zeros_like(W) == [r \in DOMAIN W |-> [c \in DOMAIN W[r] |-> 0]]

\* ndarray + ndarray on two matrices.
ndarray__add__(x, y) == [r \in DOMAIN x |-> [c \in DOMAIN x[r] |-> x[r][c] + y[r][c]]]

\* The body of the loop of count_derest_fc for batch member i.
fc_indicators(self, i, indicators) ==
    LET act == self.activations
        der == Interval__getitem__(self.derivatives, i)
    IN  ndarray__add__(indicators,
            numpy_amax(Interval_eval(Interval_mul_array(Interval_dot(act, der),
                                                        self.layer.W))))

\* The loop of count_derest_fc, from batch member i on.
RECURSIVE count_derest_fc_from(_, _, _)
count_derest_fc_from(self, i, indicators) ==
    IF i > Len(self.derivatives.lower) THEN indicators
    ELSE count_derest_fc_from(self, i + 1, fc_indicators(self, i, indicators))

\* What count_derest_fc and count_derest_conv return when the buffers hold
\* terms: an array made like self.layer.W from the layer's two buffers.
indicators_like_W(self) ==
    [type |-> "ndarray", like |-> self.layer.id,
     activations |-> self.activations, derivatives |-> self.derivatives]

\* DerestLayer.count_derest_fc. A layer the backward pass has not reached has
\* derivatives None, which has no shape.
count_derest_fc(self) ==
    IF self.derivatives = None THEN Failed(self, "AttributeError", <<>>)
    ELSE IF IsTerm(self.derivatives) THEN Done(self, indicators_like_W(self), <<>>)
    ELSE Done(self, count_derest_fc_from(self, 1, numpy_zeros_like(self.layer.W)), <<>>)

\* a[r0:r1, c0:c1] of a matrix; r0 and c0 count from 0, r1 and c1 are exclusive.
slice2(a, r0, r1, c0, c1) ==
    [r \in 1..(Min2(r1, Len(a)) - r0) |->
        [c \in 1..(Min2(c1, Len(a[r + r0])) - c0) |-> a[r + r0][c + c0]]]

\* DerestLayer._get_activation_for_weight; i1, i2, i3 count from 0.
_get_activation_for_weight(self, i1, i2, i3) ==
    LET n1 == self.layer.input_shape.items[1]
        n2 == self.layer.input_shape.items[2]
        m2 == self.layer.filter_shape.items[2]
    IN  NumInterval(
            slice2(self.activations.lower[i1 + 1], i2, n1 - m2 + i2 + 1, i3, n2 - m2 + i3 + 1),
            slice2(self.activations.upper[i1 + 1], i2, n1 - m2 + i2 + 1, i3, n2 - m2 + i3 + 1))

\* The body of the loops of count_derest_conv for batch member batch_nr: every
\* weight's indicator grows by the sum over the offsets; j counts from 1.
conv_indicators(self, batch_nr, indicators) ==
    LET der == Interval__getitem__(self.derivatives, batch_nr)
    IN  [j \in DOMAIN indicators |->
            LET y == _get_activation_for_weight(self, j[2] - 1, j[3] - 1, j[4] - 1)
                x == Interval_eval(Interval_mul_number(
                         Interval__mul__(Interval__getitem__(der, j[1]), y),
                         self.layer.W[j]))
            IN  indicators[j] + numpy_sum(numpy_amax(x))]

\* The loop of count_derest_conv, from batch member batch_nr on.
RECURSIVE count_derest_conv_from(_, _, _)
count_derest_conv_from(self, batch_nr, indicators) ==
    IF batch_nr > Len(self.derivatives.lower) THEN indicators
    ELSE count_derest_conv_from(self, batch_nr + 1, conv_indicators(self, batch_nr, indicators))

\* DerestLayer.count_derest_conv that accumulates in self.layer.W itself
\* instead of in an array made like it.
count_derest_convIntoW(self) ==
    IF self.derivatives = None THEN Failed(self, "AttributeError", <<>>)
    ELSE IF IsTerm(self.derivatives) THEN Done(self, indicators_like_W(self), <<>>)
    ELSE LET indicators == count_derest_conv_from(self, 1, self.layer.W)
         IN  Done([self EXCEPT !.layer.W = indicators], indicators, <<>>)

\* DerestLayer.count_derest_conv; W is indexed by (j1, j2, j3, j4). The
\* indicators are written element by element into the array zeros_like made,
\* which no attribute of self refers to.
count_derest_conv(self) ==
    IF self.derivatives = None THEN Failed(self, "AttributeError", <<>>)
    ELSE IF IsTerm(self.derivatives) THEN Done(self, indicators_like_W(self), <<>>)
    ELSE Done(self,
              count_derest_conv_from(self, 1, [j \in DOMAIN self.layer.W |-> 0]),
              <<>>)

\* DerestLayer.count_derest.
DerestLayer_count_derest(self) ==
    CASE self.layer.kind = "ConvolutionalLayer" -> count_derest_conv(self)
      [] self.layer.kind = "FullyConnectedLayer" -> count_derest_fc(self)
      [] self.layer.kind = "InceptionLayer" -> Failed(self, "NotImplementedError", <<>>)
      [] OTHER -> Done(self, None, <<>>)

\* DerestNetwork.count_derest: the list comprehension from layer i on.
RECURSIVE count_derest_from(_, _, _)
count_derest_from(self, i, res) ==
    IF i > Len(self) THEN Done(self, res, <<>>)
    ELSE LET r == DerestLayer_count_derest(self[i])
             self1 == [self EXCEPT ![i] = r.self]
         IN  IF r.exc # "none" THEN Failed(self1, r.exc, <<>>)
             ELSE count_derest_from(self1, i + 1, Append(res, r.res))

count_derest(self) == count_derest_from(self, 1, <<>>)

----------------------------------------------------------------------------
\* athenet/algorithm/derest/layers/inception.py.

\* obj.name = v, for an attribute the object may not have yet.
SetAttr(obj, name, v) ==
    [a \in DOMAIN obj \cup {name} |-> IF a = name THEN v ELSE obj[a]]

\* InceptionLayer.top_layers: the last layer of every branch.
top_layers(layer) ==
    [k \in 1..Len(layer.layer_lists) |-> layer.layer_lists[k][Len(layer.layer_lists[k])]]

\* Interval.concat: along the channel axis.
concat(self, other) == Interval(self.data \o other.data)

\* Interval.__add__, elementwise.
Interval__add__(self, other) == Interval(<<[sum |-> <<self.data, other.data>>]>>)

\* output[:, first:last, ::]; first counts from 0 and last is exclusive.
channel_slice(output, first, last) ==
    Interval([b \in 1..Len(output.data) |->
                 SubSeq(output.data[b], first + 1, Min2(last, Len(output.data[b])))])

\* get_derest_layer and DerestInceptionLayer.__init__ call each other.
RECURSIVE get_derest_layer(_)
RECURSIVE derest_layer_list_from(_, _, _)
RECURSIVE derest_layer_lists_from(_, _, _)

\* The inner loop of DerestInceptionLayer.__init__, from the layer at j on.
derest_layer_list_from(layer_list, j, derest_layer_list) ==
    IF j > Len(layer_list) THEN Done(None, derest_layer_list, <<>>)
    ELSE LET r == get_derest_layer(layer_list[j])
         IN  IF r.exc # "none" THEN r
             ELSE derest_layer_list_from(layer_list, j + 1, Append(derest_layer_list, r.res))

\* The outer loop of DerestInceptionLayer.__init__, from branch k on.
derest_layer_lists_from(layer_lists, k, derest_layer_lists) ==
    IF k > Len(layer_lists) THEN Done(None, derest_layer_lists, <<>>)
    ELSE LET r == derest_layer_list_from(layer_lists[k], 1, <<>>)
         IN  IF r.exc # "none" THEN r
             ELSE derest_layer_lists_from(layer_lists, k + 1, Append(derest_layer_lists, r.res))

\* DerestInceptionLayer.__init__.
DerestInceptionLayer(layer) ==
    LET self == DerestLayer(layer)
        r == derest_layer_lists_from(self.layer.layer_lists, 1, <<>>)
    IN  IF r.exc # "none" THEN r
        ELSE Done(None, SetAttr(self, "derest_layer_lists", r.res), <<>>)

\* get_derest_layer.
get_derest_layer(layer) ==
    CASE layer.kind \in {"Softmax", "ReLU", "PoolingLayer", "LRN", "ConvolutionalLayer",
                         "Dropout", "FullyConnectedLayer"} ->
             Done(None, DerestLayer(layer), <<>>)
      [] layer.kind = "InceptionLayer" -> DerestInceptionLayer(layer)
      [] OTHER -> Failed(None, "NotImplementedError", <<>>)

\* results = inp / results = results.concat(inp), the wrong way round.
concat_resultsReversed(res, x) ==
    IF res = None THEN x ELSE concat(x, res)

\* DerestInceptionLayer.count_activation: what a branch's output does to results.
concat_results(res, x) ==
    IF res = None THEN x ELSE concat(res, x)

RECURSIVE DerestInceptionLayer_count_activation(_, _)
RECURSIVE branch_activation_from(_, _, _, _)
RECURSIVE branches_activation_from(_, _, _, _, _)

\* derest_layer.count_activation(inp): the method of the object's class.
derest_layer_count_activation(derest_layer, x) ==
    IF "derest_layer_lists" \in DOMAIN derest_layer
    THEN DerestInceptionLayer_count_activation(derest_layer, x)
    ELSE DerestLayer_count_activation(derest_layer, x)

\* The inner loop of DerestInceptionLayer.count_activation, from the layer at j on.
branch_activation_from(derest_layer_list, j, x, calls) ==
    IF j > Len(derest_layer_list) THEN Done(derest_layer_list, x, calls)
    ELSE LET r == derest_layer_count_activation(
                      SetAttr(derest_layer_list[j], "activation", x), x)
             list1 == [derest_layer_list EXCEPT ![j] = r.self]
         IN  IF r.exc # "none" THEN Failed(list1, r.exc, calls \o r.calls)
             ELSE branch_activation_from(list1, j + 1, r.res, calls \o r.calls)

\* The outer loop of DerestInceptionLayer.count_activation, from branch k on.
branches_activation_from(self, k, input, res, calls) ==
    IF k > Len(self.derest_layer_lists) THEN Done(self, res, calls)
    ELSE LET r == branch_activation_from(self.derest_layer_lists[k], 1, input, <<>>)
             self1 == [self EXCEPT !.derest_layer_lists[k] = r.self]
         IN  IF r.exc # "none" THEN Failed(self1, r.exc, calls \o r.calls)
             ELSE branches_activation_from(self1, k + 1, input,
                                           concat_results(res, r.res), calls \o r.calls)

\* DerestInceptionLayer.count_activation.
DerestInceptionLayer_count_activation(self, input) ==
    branches_activation_from(self, 1, input, None, <<>>)

\* The first loop of DerestInceptionLayer.count_derivatives: output_list.
RECURSIVE output_list_from(_, _, _, _, _)
output_list_from(tops, k, output, last, output_list) ==
    IF k > Len(tops) THEN Done(None, output_list, <<>>)
    ELSE IF ~isinstance_tuple(tops[k].output_shape) THEN Failed(None, "TypeError", <<>>)
    ELSE LET width == tops[k].output_shape.items[2]
         IN  output_list_from(tops, k + 1, output, last + width,
                              Append(output_list, channel_slice(output, last, last + width)))

\* The second loop of DerestInceptionLayer.count_derivatives: zip pairs the
\* rows of output, not the slices of output_list, with the branches; the
\* inner loop calls count_derivatives on the list of the branch.
RECURSIVE zip_from(_, _, _, _)
zip_from(self, k, output, result) ==
    IF k > Min2(Len(output.data), Len(self.derest_layer_lists)) THEN Done(self, result, <<>>)
    ELSE IF self.derest_layer_lists[k] # <<>> THEN Failed(self, "AttributeError", <<>>)
    ELSE LET out == Interval(output.data[k])
         IN  zip_from(self, k + 1, output,
                      IF result = None THEN out ELSE Interval__add__(result, out))

\* DerestInceptionLayer.count_derivatives.
DerestInceptionLayer_count_derivatives(self, output, input_shape) ==
    LET r == output_list_from(top_layers(self.layer), 1, output, 0, <<>>)
    IN  IF r.exc # "none" THEN Failed(self, r.exc, <<>>)
        ELSE zip_from(self, 1, output, None)

----------------------------------------------------------------------------
\* The calls made on the engine.

\* An interval over n channels nothing is known about.
Box(n) == Interval([c \in 1..n |-> [by |-> <<>>, c |-> c, of |-> <<>>]])

\* input.derest_output(output_nr), for a batch of the given size.
derest_output(batches, n) == Interval([b \in 1..batches |-> Box(n).data])

\* What a call leaves in the state.
Ran(name, arg0, r) ==
    /\ pc' = name
    /\ inp' = arg0
    /\ val' = r.res
    /\ dexc' = r.exc
    /\ log' = log \o r.calls

\* n = DerestNetwork(network)
NewDerestNetwork ==
    /\ pc = "idle"
    /\ \E net \in Networks :
          /\ network' = net
          /\ layers' = DerestNetwork(net)
    /\ Ran("DerestNetwork", None, Done(None, None, <<>>))
    /\ UNCHANGED <<incep, results>>
    /\ UNCHANGED vars

\* n.count_activations(input)
CountActivations ==
    /\ pc = "DerestNetwork"
    /\ LET input == Box(channels(network[1].input_shape))
           r == count_activations(layers, input)
       IN  /\ layers' = r.self
           /\ Ran("count_activations", input, r)
    /\ UNCHANGED <<network, incep, results>>
    /\ UNCHANGED vars

\* n.count_derivatives(outp, batches)
CountDerivatives ==
    /\ pc = "count_activations"
    /\ dexc = "none"
    /\ \E batches \in 1..MaxBatch :
          LET outp == derest_output(batches, channels(network[Len(network)].output_shape))
              r == count_derivatives(layers, outp, PyInt(batches))
          IN  /\ layers' = r.self
              /\ Ran("count_derivatives", outp, r)
    /\ UNCHANGED <<network, incep, results>>
    /\ UNCHANGED vars

\* results = n.count_derest()
CountDerest ==
    /\ pc = "count_derivatives"
    /\ dexc = "none"
    /\ LET r == count_derest(layers)
       IN  /\ results' = r.res
           /\ layers' = r.self
           /\ network' = [i \in DOMAIN network |-> r.self[i].layer]
           /\ Ran("count_derest", None, r)
    /\ UNCHANGED incep
    /\ UNCHANGED vars

\* get_derest_indicators(network, input): DerestNetwork.count_activations
\* takes one argument and is called with two.
get_derest_indicators ==
    /\ pc = "idle"
    /\ \E net \in Networks :
          /\ network' = net
          /\ layers' = DerestNetwork(net)
          /\ Ran("get_derest_indicators", Box(channels(net[1].input_shape)),
                 Failed(None, "TypeError", <<>>))
    /\ UNCHANGED <<incep, results>>
    /\ UNCHANGED vars

\* l = DerestInceptionLayer(layer)
NewDerestInceptionLayer ==
    /\ pc = "idle"
    /\ \E layer \in InceptionLayers :
          LET r == DerestInceptionLayer(layer)
          IN  /\ incep' = r.res
              /\ network' = <<layer>>
              /\ Ran("DerestInceptionLayer", None, r)
    /\ UNCHANGED <<layers, results>>
    /\ UNCHANGED vars

\* l.count_activation(input)
InceptionCountActivation ==
    /\ pc = "DerestInceptionLayer"
    /\ dexc = "none"
    /\ LET input == Box(channels(incep.layer.input_shape))
           r == DerestInceptionLayer_count_activation(incep, input)
       IN  /\ incep' = r.self
           /\ Ran("DerestInceptionLayer.count_activation", input, r)
    /\ UNCHANGED <<network, layers, results>>
    /\ UNCHANGED vars

\* l.count_derivatives(output, input_shape)
InceptionCountDerivatives ==
    /\ pc = "DerestInceptionLayer.count_activation"
    /\ dexc = "none"
    /\ \E batches \in 1..MaxBatch :
          LET output == derest_output(batches, channels(incep.layer.output_shape))
              input_shape == _add_tuples(PyInt(batches), _change_order(incep.layer.input_shape))
              r == DerestInceptionLayer_count_derivatives(incep, output, input_shape)
          IN  /\ incep' = r.self
              /\ Ran("DerestInceptionLayer.count_derivatives", output, r)
    /\ UNCHANGED <<network, layers, results>>
    /\ UNCHANGED vars

DerestNext ==
    \/ NewDerestNetwork
    \/ CountActivations
    \/ CountDerivatives
    \/ CountDerest
    \/ get_derest_indicators
    \/ NewDerestInceptionLayer
    \/ InceptionCountActivation
    \/ InceptionCountDerivatives

SpecDerest == Init /\ [][DerestNext]_allvars

----------------------------------------------------------------------------
\* Claims about the passes of the engine.

\* The layers of a network and the layers of their branches.
AllLayers(net) ==
    {net[i] : i \in DOMAIN net}
        \cup UNION { UNION { {net[i].layer_lists[k][j] : j \in DOMAIN net[i].layer_lists[k]} :
                             k \in DOMAIN net[i].layer_lists } :
                     i \in DOMAIN net }

\* The calls of a transform logged for a layer.
CallsOf(fn, id) == {n \in DOMAIN log : log[n].fn = fn /\ log[n].layer = id}
CallOf(fn, id) == log[CHOOSE n \in DOMAIN log : log[n].fn = fn /\ log[n].layer = id]

\* The ids of the sub-layers of a layer's branches, branch by branch.
RECURSIVE SubLayerIds(_, _)
SubLayerIds(layer_lists, k) ==
    IF k = 0 THEN <<>>
    ELSE SubLayerIds(layer_lists, k - 1)
             \o [j \in 1..Len(layer_lists[k]) |-> layer_lists[k][j].id]

\* C11: an engine built over a network that holds a layer of a class with no
\* transform has raised at construction, and no pass and no indicator
\* computation has returned over such a network.
C11_UnknownKindFatal ==
    (pc # "idle" /\ \E l \in AllLayers(network) : l.kind \notin RegisteredKinds) =>
        /\ pc \in {"DerestNetwork", "DerestInceptionLayer"}
        /\ dexc = "NotImplementedError"

Lifecycle ==
    /\ \A i \in DOMAIN network :
          /\ Cardinality(CallsOf("count_activation", network[i].id)) = 1
          /\ Cardinality(CallsOf("count_derivative", network[i].id)) = 1
          /\ layers[i].activations # None
          /\ layers[i].derivatives # None
    /\ \A i, j \in DOMAIN network :
          i <= j =>
              \A a \in CallsOf("count_activation", network[j].id),
                 d \in CallsOf("count_derivative", network[i].id) : a < d

\* The lifecycle on the calls made one by one: once the indicators were
\* computed, every layer went Unvisited -> ActivationSet -> DerivativeSet.
LifecycleOfDirectCalls == (pc = "count_derest" /\ dexc = "none") => Lifecycle

\* C14: a run of get_derest_indicators takes every layer through
\* Unvisited -> ActivationSet -> DerivativeSet: each buffer is written once,
\* a derivative after the activations of its layer and of all later layers,
\* and the indicators are computed after all of that.
C14_Lifecycle == pc = "get_derest_indicators" => (dexc = "none" /\ Lifecycle)

\* The DerestLayer objects of the sub-layers of a DerestInceptionLayer.
SubLayers(self) ==
    UNION { {self.derest_layer_lists[k][j] : j \in DOMAIN self.derest_layer_lists[k]} :
            k \in DOMAIN self.derest_layer_lists }

\* C15: the forward pass followed by the backward pass returns, and then every
\* layer, and every sub-layer of every branch of an Inception layer, holds an
\* activation interval and a derivative interval.
C15_BothSet ==
    /\ (pc = "count_derivatives" /\ dexc = "none") =>
          \A i \in DOMAIN layers :
              layers[i].activations # None /\ layers[i].derivatives # None
    /\ pc = "DerestInceptionLayer.count_derivatives" =>
          /\ dexc = "none"
          /\ \A l \in SubLayers(incep) : l.activations # None /\ l.derivatives # None

\* C16: when a transform raised in a pass, the caller has the exception and
\* the buffers the pass writes are as they were before it.
C16_AllOrNothing ==
    /\ (pc = "count_activations" /\ dexc # "none") =>
          \A i \in DOMAIN layers : layers[i].activations = None
    /\ (pc = "count_derivatives" /\ dexc # "none") =>
          \A i \in DOMAIN layers : layers[i].derivatives = None

\* What the forward pass of a DerestInceptionLayer got from branch k: what the
\* transform of the branch's last sub-layer returned.
BranchOutput(k) ==
    LET layer_list == incep.layer.layer_lists[k]
    IN  CallOf("count_activation", layer_list[Len(layer_list)].id).res

BranchWidths ==
    [k \in DOMAIN incep.layer.layer_lists |-> Len(BranchOutput(k).data)]

C18_InceptionBackward ==
    pc = "DerestInceptionLayer.count_derivatives" =>
        /\ dexc = "none"
        /\ \A k \in DOMAIN incep.derest_layer_lists :
              LET derest_list == incep.derest_layer_lists[k]
              IN  derest_list[Len(derest_list)].derivatives =
                      channel_slice(inp, SumTo(BranchWidths, k - 1), SumTo(BranchWidths, k))

----------------------------------------------------------------------------
\* The indicators of one weighted layer.

Bounds == (0 - MaxBound)..MaxBound

\* The batch members of the buffers: as many as in the repository's test of
\* the derivative of a layer, shape = (2, 5, 3, 3).
batch_size == 2

\* The intervals over numbers an element of a buffer may hold.
Boxes == {b \in [lower : Bounds, upper : Bounds] : b.lower <= b.upper}

\* A FullyConnectedLayer with the weights W: n_in rows of n_out numbers.
FullyConnectedLayer(W) ==
    SetAttr(Layer("FullyConnectedLayer", <<1>>, PyInt(Len(W)), PyInt(Len(W[1])), <<>>), "W", W)

\* A ConvolutionalLayer of one filter of shape (1, 1, 1) with the weight w, on
\* an image of shape (1, 2, 1).
ConvolutionalLayer(w) ==
    SetAttr(SetAttr(Layer("ConvolutionalLayer", <<1>>, Tuple(<<1, 2, 1>>), Tuple(<<1, 2, 1>>),
                          <<>>),
                    "filter_shape", Tuple(<<1, 1, 1>>)),
            "W", [j \in {<<1, 1, 1, 1>>} |-> w])

WeightedLayers ==
    {FullyConnectedLayer(W) : W \in [1..2 -> [1..1 -> Bounds]]}
        \cup {ConvolutionalLayer(w) : w \in Bounds}

\* n = DerestNetwork(network), for a network of one weighted layer.
NewWeightedNetwork ==
    /\ pc = "idle"
    /\ \E layer \in WeightedLayers :
          /\ network' = <<layer>>
          /\ layers' = DerestNetwork(<<layer>>)
    /\ Ran("DerestNetwork", None, Done(None, None, <<>>))
    /\ UNCHANGED <<incep, results>>
    /\ UNCHANGED vars

\* The array of a layer's shape that holds v everywhere.
full_like(shape_, v) ==
    IF isinstance_tuple(shape_)
    THEN [ch \in 1..shape_.items[3] |-> [r \in 1..shape_.items[1] |->
             [c \in 1..shape_.items[2] |-> v]]]
    ELSE [a \in 1..shape_.value |-> v]

\* The two passes have run: DerestLayer.count_activation stored its input and
\* DerestLayer.count_derivatives its output, one row for each batch member.
PassesStored ==
    /\ pc = "DerestNetwork"
    /\ "W" \in DOMAIN network[1]
    /\ \E a \in Boxes, batches \in 1..batch_size :
          \E d \in [1..batches -> Boxes] :
              LET layer == network[1]
                  input == NumInterval(full_like(layer.input_shape, a.lower),
                                       full_like(layer.input_shape, a.upper))
                  output ==
                      NumInterval(
                          [i \in 1..batches |-> full_like(layer.output_shape, d[i].lower)],
                          [i \in 1..batches |-> full_like(layer.output_shape, d[i].upper)])
              IN  /\ layers' = [layers EXCEPT ![1].activations = input,
                                              ![1].derivatives = output]
                  /\ Ran("count_derivatives", output, Done(None, None, <<>>))
    /\ UNCHANGED <<network, incep, results>>
    /\ UNCHANGED vars

\* numpy.full(shape, v) for a shape (n, h, w) or n.
numpy_full(shape_, v) ==
    IF isinstance_tuple(shape_)
    THEN [ch \in 1..shape_.items[1] |-> [r \in 1..shape_.items[2] |->
             [c \in 1..shape_.items[3] |-> v]]]
    ELSE [a \in 1..shape_.value |-> v]

\* The fractions of the weights derest is asked to delete: 0, 1/2 and all.
Fractions == {[num |-> 0, den |-> 1], [num |-> 1, den |-> 2], [num |-> 1, den |-> 1]}

\* derest(network, fraction, (min_value, max_value)): builds the input box and
\* calls get_derest_indicators, which builds the DerestNetwork and calls its
\* count_activations with two arguments where it takes one. The call of
\* delete_weights_by_global_fraction after it is not reached.
derest ==
    /\ pc = "idle"
    /\ \E layer \in WeightedLayers, fraction \in Fractions, value \in Boxes :
          LET input_shape == _change_order(layer.input_shape)
              input == NumInterval(numpy_full(input_shape, value.lower),
                                   numpy_full(input_shape, value.upper))
          IN  /\ network' = <<layer>>
              /\ layers' = DerestNetwork(<<layer>>)
              /\ Ran("derest", [input |-> input, fraction |-> fraction],
                     Failed(None, "TypeError", <<>>))
    /\ UNCHANGED <<incep, results>>
    /\ UNCHANGED vars

IndicatorNext ==
    \/ NewWeightedNetwork
    \/ PassesStored
    \/ CountDerest
    \/ derest

SpecIndicator == Init /\ [][IndicatorNext]_allvars

----------------------------------------------------------------------------
\* Claims about the indicators.

\* The indicators were computed for the one weighted layer.
IndicatorsComputed == pc = "count_derest" /\ dexc = "none" /\ "W" \in DOMAIN network[1]

\* What batch member i alone contributes to the indicators of the layer: for
\* every weight, the bound of activation * derivative * weight, summed over
\* the offsets for a convolutional weight.
MemberBound(self, i) ==
    IF self.layer.kind = "FullyConnectedLayer"
    THEN fc_indicators(self, i, numpy_zeros_like(self.layer.W))
    ELSE conv_indicators(self, i, [j \in DOMAIN self.layer.W |-> 0])

BatchMembers(self) == 1..Len(self.derivatives.lower)

\* C19: the indicator of every weight is the greatest of the bounds of the
\* batch members, for a fully-connected layer and, with the bound summed over
\* the offsets, for a convolutional layer.
C19_MaxOverBatch ==
    IndicatorsComputed =>
        LET self == layers[1]
        IN  IF self.layer.kind = "FullyConnectedLayer"
            THEN \A a \in DOMAIN self.layer.W : \A j \in DOMAIN self.layer.W[a] :
                     results[1][a][j] =
                         SetMax({MemberBound(self, i)[a][j] : i \in BatchMembers(self)})
            ELSE \A j \in DOMAIN self.layer.W :
                     results[1][j] =
                         SetMax({MemberBound(self, i)[j] : i \in BatchMembers(self)})

\* C20: no element of the indicators is negative, and the indicators have the
\* shape of the layer's weights.
C20_NonNegative ==
    IndicatorsComputed =>
        LET W == network[1].W
        IN  IF network[1].kind = "FullyConnectedLayer"
            THEN /\ DOMAIN results[1] = DOMAIN W
                 /\ \A a \in DOMAIN W :
                       /\ DOMAIN results[1][a] = DOMAIN W[a]
                       /\ \A j \in DOMAIN W[a] : results[1][a][j] >= 0
            ELSE /\ DOMAIN results[1] = DOMAIN W
                 /\ \A j \in DOMAIN W : results[1][j] >= 0

\* C21: computing the indicators, on the network and through it on every
\* layer, leaves the activations and the derivatives of every layer and the
\* weights of every layer as they were.
C21_IndicatorsReadOnly ==
    [][ pc' = "count_derest" =>
            /\ network' = network
            /\ Len(layers') = Len(layers)
            /\ \A i \in DOMAIN layers :
                  /\ layers'[i].activations = layers[i].activations
                  /\ layers'[i].derivatives = layers[i].derivatives
                  /\ layers'[i].layer = layers[i].layer
      ]_allvars

\* The indicators of a convolutional layer with a weight that is not 0 were
\* computed from two batch members, and they are not the weights.
C21_Witness ==
    /\ IndicatorsComputed
    /\ network[1].kind = "ConvolutionalLayer"
    /\ Len(layers[1].derivatives.lower) = 2
    /\ results[1] # network[1].W
    /\ \E j \in DOMAIN network[1].W : network[1].W[j] # 0

\* The weights of a layer, one after the other.
WeightValues(layer) ==
    IF layer.kind = "FullyConnectedLayer"
    THEN [n \in 1..(Len(layer.W) * Len(layer.W[1])) |->
             layer.W[((n - 1) \div Len(layer.W[1])) + 1][((n - 1) % Len(layer.W[1])) + 1]]
    ELSE [n \in 1..1 |-> layer.W[<<1, 1, 1, 1>>]]

\* C22: derest(network, f) returns, and the lowest f-fraction of the weights,
\* ranked by their indicators, is 0 afterwards: of N weights at least the
\* whole part of f * N are 0.
C22_GlobalFraction ==
    pc = "derest" =>
        /\ dexc = "none"
        /\ LET w == WeightValues(network[1])
           IN  Cardinality({n \in DOMAIN w : w[n] = 0}) >=
                   (inp.fraction.num * Len(w)) \div inp.fraction.den

----------------------------------------------------------------------------
\* NpInterval.op_d_norm: the derivative of the local response normalisation.

\* What math.sqrt and the powers make is kept exactly: the number
\* s * sqrt(n / d), with s its sign and n / d in lowest terms.
Sign(i) == IF i > 0 THEN 1 ELSE IF i < 0 THEN 0 - 1 ELSE 0

\* Body(v), with v computed once.
With(v, Body(_)) == CHOOSE y \in {Body(x) : x \in {v}} : TRUE

RECURSIVE Gcd(_, _)
Gcd(a, b) == IF b = 0 THEN a ELSE With(a % b, LAMBDA r : Gcd(b, r))

RECURSIVE Pow(_, _)
Pow(b, e) == IF e = 0 THEN 1 ELSE b * Pow(b, e - 1)

Real(s, n, d) ==
    IF s = 0 \/ n = 0 THEN [s |-> 0, n |-> 0, d |-> 1]
    ELSE With(<<s, n, d>>,
              LAMBDA t : With(Gcd(t[2], t[3]),
                              LAMBDA g : [s |-> t[1], n |-> t[2] \div g, d |-> t[3] \div g]))

\* The float of a whole number.
float(i) == Real(Sign(i), i * i, 1)

\* n1 / d1 < n2 / d2, by the whole parts and then by what is left of them.
RECURSIVE QLess(_, _, _, _)
QLess(n1, d1, n2, d2) ==
    IF n1 \div d1 # n2 \div d2 THEN n1 \div d1 < n2 \div d2
    ELSE With(<<n1 % d1, n2 % d2>>,
              LAMBDA r : IF r[2] = 0 THEN FALSE
                         ELSE IF r[1] = 0 THEN TRUE
                         ELSE QLess(d2, r[2], d1, r[1]))

real_lt(x, y) ==
    IF x.s # y.s THEN x.s < y.s
    ELSE IF x.s = 1 THEN QLess(x.n, x.d, y.n, y.d)
    ELSE IF x.s = 0 - 1 THEN QLess(y.n, y.d, x.n, x.d)
    ELSE FALSE

real_le(x, y) == ~real_lt(y, x)
real_min(x, y) == IF real_lt(y, x) THEN y ELSE x
real_max(x, y) == IF real_lt(x, y) THEN y ELSE x
real_mul(x, y) == Real(x.s * y.s, x.n * y.n, x.d * y.d)

\* x + y where one of the two is 0.
real_add(x, y) ==
    CASE x.s = 0 -> y
      [] y.s = 0 -> x

\* der_eq(x, c), beta being beta2 / 2:
\* (alpha * (1-2*beta) * x**2 + c) / (alpha * x**2 + c) ** (beta + 1)
der_eq(x, c, alpha, beta2) ==
    LET N == alpha * (1 - beta2) * x.n + c * x.d
        D == alpha * x.n + c * x.d
    IN  Real(Sign(N), N * N * Pow(x.d, beta2), Pow(D, beta2 + 2))

\* root1_2d: x = 0 and x = -+ sqrt(3 * c) / sqrt(alpha * (2 * beta - 1)) at
\* c_low and c_up, those with x_low <= x <= x_up. math.sqrt of a negative
\* number is a ValueError, the division by math.sqrt(0) a ZeroDivisionError.
root1_2d(c_low, c_up, x_low, x_up, alpha, beta2) ==
    LET r == alpha * (beta2 - 1)
        possibilities_c0 == <<[x |-> float(0), c |-> c_low], [x |-> float(0), c |-> c_up]>>
        possibilities_c1 == <<[x |-> Real(0 - 1, 3 * c_low, r), c |-> c_low],
                              [x |-> Real(0 - 1, 3 * c_up, r), c |-> c_up]>>
        possibilities_c2 == <<[x |-> Real(1, 3 * c_low, r), c |-> c_low],
                              [x |-> Real(1, 3 * c_up, r), c |-> c_up]>>
    IN  IF c_low < 0 \/ r < 0 THEN [exc |-> "ValueError", items |-> <<>>]
        ELSE IF r = 0 THEN [exc |-> "ZeroDivisionError", items |-> <<>>]
        ELSE IF c_up < 0 THEN [exc |-> "ValueError", items |-> <<>>]
        ELSE [exc |-> "none",
              items |-> SelectSeq(possibilities_c0 \o possibilities_c1 \o possibilities_c2,
                                  LAMBDA e : real_le(float(x_low), e.x) /\ real_le(e.x, float(x_up)))]

\* root2_2d: c = alpha * (2*beta+1) * x**2 at x_low and x_up, those with
\* c_low <= c <= c_up.
root2_2d(c_low, c_up, x_low, x_up, alpha, beta2) ==
    LET possibilities_x == <<[x |-> float(x_low), c |-> alpha * (beta2 + 1) * x_low * x_low],
                             [x |-> float(x_up), c |-> alpha * (beta2 + 1) * x_up * x_up]>>
    IN  SelectSeq(possibilities_x, LAMBDA e : c_low <= e.c /\ e.c <= c_up)

\* der_not_eq(x, y, c):
\* -2 * alpha*beta * x*y / (c + alpha*(x**2 + y**2)) ** (beta+1)
der_not_eq(x, y, c, alpha, beta2) ==
    LET D == c * x.d * y.d + alpha * (x.n * y.d + y.n * x.d)
    IN  Real(0 - (x.s * y.s),
             alpha * alpha * beta2 * beta2 * x.n * y.n * Pow(x.d * y.d, beta2 + 1),
             Pow(D, beta2 + 2))

InRange(low, x, up) == real_le(float(low), x) /\ real_le(x, float(up))

\* product(xs, ys, cs), the last one running fastest.
product3(xs, ys, cs) ==
    [n \in 1..(Len(xs) * Len(ys) * Len(cs)) |->
        [x |-> xs[((n - 1) \div (Len(ys) * Len(cs))) + 1],
         y |-> ys[(((n - 1) \div Len(cs)) % Len(ys)) + 1],
         c |-> cs[((n - 1) % Len(cs)) + 1]]]

\* extremas_3d_dc: the corners, and 0 for x and for y, those inside the box.
extremas_3d_dc(x_low, x_up, y_low, y_up, c_low, c_up) ==
    SelectSeq(product3(<<float(x_low), float(x_up), float(0)>>,
                       <<float(y_low), float(y_up), float(0)>>,
                       <<c_low, c_up>>),
              LAMBDA e : InRange(x_low, e.x, x_up) /\ InRange(y_low, e.y, y_up))

\* extremas_3d_dx: x = +- sqrt((c + a * y ** 2) / (a * (2 * b + 1))) at the
\* corners of y and c, those inside the box.
extremas_3d_dx(x_low, x_up, y_low, y_up, c_low, c_up, alpha, beta2) ==
    LET yc == product3(<<0>>, <<y_low, y_up>>, <<c_low, c_up>>)
        sqrt1 == [n \in DOMAIN yc |->
                     [x |-> Real(1, yc[n].c + alpha * yc[n].y * yc[n].y, alpha * (beta2 + 1)),
                      y |-> float(yc[n].y), c |-> yc[n].c]]
        sqrt2 == [n \in DOMAIN yc |->
                     [x |-> Real(0 - 1, yc[n].c + alpha * yc[n].y * yc[n].y, alpha * (beta2 + 1)),
                      y |-> float(yc[n].y), c |-> yc[n].c]]
    IN  SelectSeq(sqrt1 \o sqrt2,
                  LAMBDA e : InRange(x_low, e.x, x_up) /\ InRange(y_low, e.y, y_up))

\* extremas_3d_dy: y = +- sqrt((c + a * x ** 2) / (a * (2 * b + 1))) at the
\* corners of x and c, those inside the box.
extremas_3d_dy(x_low, x_up, y_low, y_up, c_low, c_up, alpha, beta2) ==
    LET xc == product3(<<x_low, x_up>>, <<0>>, <<c_low, c_up>>)
        sqrt1 == [n \in DOMAIN xc |->
                     [x |-> float(xc[n].x),
                      y |-> Real(1, xc[n].c + alpha * xc[n].x * xc[n].x, alpha * (beta2 + 1)),
                      c |-> xc[n].c]]
        sqrt2 == [n \in DOMAIN xc |->
                     [x |-> float(xc[n].x),
                      y |-> Real(0 - 1, xc[n].c + alpha * xc[n].x * xc[n].x, alpha * (beta2 + 1)),
                      c |-> xc[n].c]]
    IN  SelectSeq(sqrt1 \o sqrt2,
                  LAMBDA e : InRange(x_low, e.x, x_up) /\ InRange(y_low, e.y, y_up))

\* der = NpInterval(); for ... in extremas: if der.lower is None or
\* der.lower > val: der.lower = val, and so for der.upper: the least and the
\* greatest of the values, and None where there is no value.
der_of(vals) ==
    IF vals = <<>> THEN NpInterval(None, None)
    ELSE NpInterval(
             vals[CHOOSE n \in DOMAIN vals : \A m \in DOMAIN vals : real_le(vals[n], vals[m])],
             vals[CHOOSE n \in DOMAIN vals : \A m \in DOMAIN vals : real_le(vals[m], vals[n])])

\* __mul__ of two intervals of one number each.
__mul__reals(self, other) ==
    With(<<real_mul(self.lower, other.lower), real_mul(self.lower, other.upper),
           real_mul(self.upper, other.lower), real_mul(self.upper, other.upper)>>,
         LAMBDA c : NpInterval(real_min(real_min(c[1], c[2]), real_min(c[3], c[4])),
                               real_max(real_max(c[1], c[2]), real_max(c[3], c[4]))))

\* __add__ of two intervals of one number each.
__add__reals(self, other) ==
    NpInterval(real_add(self.lower, other.lower), real_add(self.upper, other.upper))

\* A method of two intervals, called on two intervals of one number each.
OnScalars(method(_, _, _), X, Y) ==
    LET x == NewInterval(<<>>, <<X.lower>>, <<X.upper>>)
        y == NewInterval(x.heap, <<Y.lower>>, <<Y.upper>>)
        r == method(y.heap, x.res, y.res)
    IN  NpInterval(r.heap[r.res.lower][1], r.heap[r.res.upper][1])

\* activation.square(), as arrays.
activation_sqares(activation) ==
    LET x == NewInterval(<<>>, activation.lower, activation.upper)
        r == square(x.heap, x.res)
    IN  NpInterval(r.heap[r.res.lower], r.heap[r.res.upper])

\* x[b][channel][at_h][at_w] of an x of shape (1, n_channels, 1, 1).
at4(x, channel) == NpInterval(x.lower[channel + 1], x.upper[channel + 1])

floats(X) == NpInterval(float(X.lower), float(X.upper))

\* The i of xrange(-local_range, local_range + 1) with a channel at channel + i.
neighbours(channel, n_channels, local_range) ==
    SelectSeq([n \in 1..(2 * local_range + 1) |-> n - local_range - 1],
              LAMBDA i : 0 <= i + channel /\ i + channel < n_channels /\ i # 0)

\* C += activation_sqares[b][channel + i][at_h][at_w], for the i of is.
RECURSIVE C_from(_, _, _, _)
C_from(C, sq, channel, is) ==
    IF is = <<>> THEN C
    ELSE With(OnScalars(__add__, C, at4(sq, channel + Head(is))),
              LAMBDA C1 : C_from(C1, sq, channel, Tail(is)))

\* The candidates of the eq case and the bound der over them.
eq_der(p, Y, C, r1) ==
    With(<<[x |-> float(Y.lower), c |-> C.lower], [x |-> float(Y.lower), c |-> C.upper],
           [x |-> float(Y.upper), c |-> C.lower], [x |-> float(Y.upper), c |-> C.upper]>>
         \o r1.items \o root2_2d(C.lower, C.upper, Y.lower, Y.upper, p.alpha, p.beta2),
         LAMBDA extremas :
             [exc |-> "none", extremas |-> extremas,
              der |-> With([n \in DOMAIN extremas |->
                               der_eq(extremas[n].x, extremas[n].c, p.alpha, p.beta2)] \o <<>>,
                           LAMBDA vals : der_of(vals))])

\* The eq case of one channel; root1_2d may raise.
eq_case(p, channel, C) ==
    With(at4(p.activation, channel),
         LAMBDA Y :
             With(root1_2d(C.lower, C.upper, Y.lower, Y.upper, p.alpha, p.beta2),
                  LAMBDA r1 :
                      IF r1.exc # "none"
                      THEN [exc |-> r1.exc, extremas |-> <<>>, der |-> NpInterval(None, None)]
                      ELSE eq_der(p, Y, C, r1)))

\* The candidates of the not_eq case and the bound der over them.
not_eq_der(p, X, Y, C) ==
    With(extremas_3d_dc(X.lower, X.upper, Y.lower, Y.upper, C.lower, C.upper)
         \o extremas_3d_dx(X.lower, X.upper, Y.lower, Y.upper, C.lower, C.upper,
                           p.alpha, p.beta2)
         \o extremas_3d_dy(X.lower, X.upper, Y.lower, Y.upper, C.lower, C.upper,
                           p.alpha, p.beta2),
         LAMBDA extremas :
             [extremas |-> extremas,
              der |-> With([n \in DOMAIN extremas |->
                               der_not_eq(extremas[n].x, extremas[n].y, extremas[n].c,
                                          p.alpha, p.beta2)] \o <<>>,
                           LAMBDA vals : der_of(vals))])

\* The not_eq case of one channel for its neighbour at channel + i: C without
\* the neighbour, the candidates, der, the neighbour's result, and C with the
\* neighbour again.
not_eq_case(p, channel, i, st) ==
    With([X |-> at4(p.activation, channel + i), X2 |-> at4(p.sq, channel + i),
          Y |-> at4(p.activation, channel),
          C |-> OnScalars(antiadd, st.C, at4(p.sq, channel + i))],
         LAMBDA v :
             With([e |-> not_eq_der(p, v.X, v.Y, v.C), C2 |-> OnScalars(__add__, v.C, v.X2)],
                  LAMBDA w :
                      [C |-> w.C2,
                       result |-> [st.result EXCEPT ![channel + i + 1] =
                                      __add__reals(@, __mul__reals(w.e.der,
                                                                   floats(at4(p.self, channel))))],
                       steps |-> Append(st.steps,
                                     [case |-> "not_eq", channel |-> channel, i |-> i,
                                      X |-> v.X, Y |-> v.Y,
                                      before |-> st.C, C |-> v.C, after |-> w.C2,
                                      extremas |-> w.e.extremas, der |-> w.e.der])]))

\* for i in xrange(-local_range, local_range + 1): the not_eq case, for the i of is.
RECURSIVE not_eq_from(_, _, _, _)
not_eq_from(p, channel, is, st) ==
    IF is = <<>> THEN st
    ELSE With(not_eq_case(p, channel, Head(is), st),
              LAMBDA st1 : not_eq_from(p, channel, Tail(is), st1))

\* The eq case done, its result added, and the not_eq case of every neighbour.
after_eq(p, channel, is, C, eq, st) ==
    With(not_eq_from(p, channel, is,
             [C |-> C,
              result |-> [st.result EXCEPT ![channel + 1] =
                             __add__reals(@, __mul__reals(eq.der, floats(at4(p.self, channel))))],
              steps |-> Append(st.steps,
                            [case |-> "eq", channel |-> channel, Y |-> at4(p.activation, channel),
                             C |-> C, extremas |-> eq.extremas, der |-> eq.der])]),
         LAMBDA ne : [result |-> ne.result, steps |-> ne.steps, exc |-> "none"])

\* One position: C, the eq case, and the not_eq case of every neighbour.
position(p, channel, st) ==
    With(neighbours(channel, p.channels, p.local_range),
         LAMBDA is :
             With(C_from(NpInterval(p.k, p.k), p.sq, channel, is),
                  LAMBDA C :
                      With(eq_case(p, channel, C),
                           LAMBDA eq :
                               IF eq.exc # "none"
                               THEN [result |-> st.result, steps |-> st.steps, exc |-> eq.exc]
                               ELSE after_eq(p, channel, is, C, eq, st))))

\* for b, channel, at_h, at_w in product(...), the shape being (1, n_channels, 1, 1).
RECURSIVE channels_from(_, _, _)
channels_from(p, channel, st) ==
    IF channel = p.channels \/ st.exc # "none" THEN st
    ELSE With(position(p, channel, st), LAMBDA st1 : channels_from(p, channel + 1, st1))

\* op_d_norm(self, activation, input_shape, local_range, k, alpha, beta), beta
\* being beta2 / 2 and input_shape being (1, n_channels, 1, 1).
op_d_norm(self, activation, input_shape, local_range, k, alpha, beta2) ==
    With([self |-> self, activation |-> activation, sq |-> activation_sqares(activation),
          channels |-> input_shape[2], local_range |-> local_range \div 2,
          k |-> k, alpha |-> alpha, beta2 |-> beta2],
         LAMBDA p :
             With(channels_from(p, 0, [result |-> [c \in 1..p.channels |->
                                                      NpInterval(float(0), float(0))],
                                       steps |-> <<>>, exc |-> "none"]),
                  LAMBDA st :
                      IF st.exc # "none" THEN Failed(self, st.exc, st.steps)
                      ELSE Done(self, NpInterval([c \in 1..p.channels |-> st.result[c].lower],
                                                 [c \in 1..p.channels |-> st.result[c].upper]),
                                st.steps)))

\* The bounds of an activation, the local ranges, and k, alpha and 2 * beta.
Activations == (0 - MaxBound)..(MaxBound + 1)
ActBoxes == {b \in [lower : Activations, upper : Activations] : b.lower <= b.upper}
LocalRanges == {1, 5}
Ks == {1, 2}
Alphas == {1}
Betas2 == {1, 2}
\* The bounds of the derivative at the one channel that has one.
Derivatives == {NpInterval(1, 1), NpInterval(0, 1), NpInterval(0 - 1, 1)}

\* act = NpInterval(np.ones(shape), np.ones(shape) * 2); norm = act.op_d_norm(act, shape, ...):
\* the activation is one interval at every position, the derivative is an
\* interval at one channel and 0 at the others.
OpDNorm ==
    /\ pc = "idle"
    /\ \E n_channels \in 1..MaxLen, box \in ActBoxes, at \in 1..MaxLen, d \in Derivatives,
          local_range \in LocalRanges, k \in Ks, alpha \in Alphas, beta2 \in Betas2 :
          /\ at <= n_channels
          /\ LET input_shape == <<1, n_channels, 1, 1>>
                 activation == NpInterval(np_full(n_channels, box.lower), np_full(n_channels, box.upper))
                 self == NpInterval([c \in 1..n_channels |-> IF c = at THEN d.lower ELSE 0],
                                    [c \in 1..n_channels |-> IF c = at THEN d.upper ELSE 0])
             IN  \E r \in {op_d_norm(self, activation, input_shape, local_range, k, alpha, beta2)} :
                     Ran("op_d_norm",
                         [self |-> self, activation |-> activation, input_shape |-> input_shape,
                          local_range |-> local_range, k |-> k, alpha |-> alpha, beta2 |-> beta2],
                         r)
    /\ UNCHANGED <<network, layers, incep, results>>
    /\ UNCHANGED vars

NormNext == OpDNorm

SpecNorm == Init /\ [][NormNext]_allvars

----------------------------------------------------------------------------
\* Claims about op_d_norm.

NormRan == pc = "op_d_norm"
NormReturned == pc = "op_d_norm" /\ dexc = "none"

\* The sum of the squares of a at the channels channel + i, i in is, but not at skip.
RECURSIVE SumOfSquares(_, _, _, _)
SumOfSquares(a, channel, is, skip) ==
    IF is = <<>> THEN 0
    ELSE (IF channel + Head(is) = skip THEN 0
          ELSE a[channel + Head(is) + 1] * a[channel + Head(is) + 1])
         + SumOfSquares(a, channel, Tail(is), skip)

\* The derivative of the output at channel by the input at j, at the point a:
\* the output is a[channel] / (k + alpha * (the squares in its range)) ** beta.
Partial(a, channel, j) ==
    LET is == neighbours(channel, Len(a), inp.local_range \div 2)
    IN  IF j = channel
        THEN der_eq(float(a[channel + 1]),
                    inp.k + inp.alpha * SumOfSquares(a, channel, is, channel),
                    inp.alpha, inp.beta2)
        ELSE IF \E n \in DOMAIN is : channel + is[n] = j
        THEN der_not_eq(float(a[j + 1]), float(a[channel + 1]),
                        inp.k + inp.alpha * SumOfSquares(a, channel, is, j),
                        inp.alpha, inp.beta2)
        ELSE float(0)

\* The derivative of the network's output by the input at j, at the point a
\* and for the derivatives d by the outputs of the layer.
RECURSIVE TrueDerivative(_, _, _, _)
TrueDerivative(a, d, j, channel) ==
    IF channel = Len(a) THEN float(0)
    ELSE real_add(real_mul(float(d[channel + 1]), Partial(a, channel, j)),
                  TrueDerivative(a, d, j, channel + 1))

\* The vectors of whole numbers inside an interval of arrays.
PointsOf(X) ==
    {a \in [DOMAIN X.lower -> Activations \cup Bounds] :
        \A c \in DOMAIN X.lower : X.lower[c] <= a[c] /\ a[c] <= X.upper[c]}

\* C23: for every activation inside the activation interval and every
\* derivative inside the derivative interval, the derivative by every input,
\* the one in the numerator and each neighbour in the local range, is inside
\* the interval op_d_norm returns, also where the local derivative has its
\* extremum strictly inside the box.
C23_NormSound ==
    NormReturned =>
        \A a \in PointsOf(inp.activation) : \A d \in PointsOf(inp.self) :
            \A j \in 0..(Len(a) - 1) :
                With(TrueDerivative(a, d, j, 0),
                     LAMBDA t : real_le(val.lower[j + 1], t) /\ real_le(t, val.upper[j + 1]))

\* Just.test: shape (.., channels, .., ..), act = [1, 2] everywhere,
\* act.op_d_norm(act, shape, 5, 1, 1, 0.5).
JustTest ==
    /\ NormRan
    /\ \A c \in DOMAIN inp.activation.lower :
          inp.activation.lower[c] = 1 /\ inp.activation.upper[c] = 2
    /\ inp.local_range = 5 /\ inp.k = 1 /\ inp.alpha = 1 /\ inp.beta2 = 1

\* C24: op_d_norm returns, raising nothing, an interval of the shape
\* input_shape for an activation of [1, 2] everywhere, local_range 5, k = 1,
\* alpha = 1 and beta = 0.5.
C24_JustTestReturns ==
    JustTest =>
        /\ dexc = "none"
        /\ Len(val.lower) = inp.input_shape[2]
        /\ Len(val.upper) = inp.input_shape[2]

\* A candidate list has the entry e.
Has(extremas, e) == \E m \in DOMAIN extremas : extremas[m] = e

\* Every corner of the box of a step is one of its candidates.
CornersAreCandidates(e) ==
    IF e.case = "eq"
    THEN \A x \in {e.Y.lower, e.Y.upper} : \A c \in {e.C.lower, e.C.upper} :
             Has(e.extremas, [x |-> float(x), c |-> c])
    ELSE \A x \in {e.X.lower, e.X.upper} : \A y \in {e.Y.lower, e.Y.upper} :
             \A c \in {e.C.lower, e.C.upper} :
                 Has(e.extremas, [x |-> float(x), y |-> float(y), c |-> c])

ValidC(C) == inp.k <= C.lower /\ C.lower <= C.upper

\* C30: at every step of op_d_norm, C has k <= C.lower <= C.upper, before a
\* neighbour is taken out, without it and with it again; C with the neighbour
\* again is C as it was before; every corner of the box is a candidate; der is
\* set and der.lower <= der.upper.
C30_NormIntermediates ==
    NormRan =>
        \A n \in DOMAIN log :
            /\ ValidC(log[n].C)
            /\ log[n].case = "not_eq" =>
                  /\ ValidC(log[n].before)
                  /\ ValidC(log[n].after)
                  /\ log[n].after = log[n].before
            /\ CornersAreCandidates(log[n])
            /\ log[n].der.lower # None
            /\ log[n].der.upper # None
            /\ real_le(log[n].der.lower, log[n].der.upper)

\* op_d_norm returned, and at a step a neighbour with two different squares
\* was taken out of C; the candidates were more than the corners and der has
\* two different bounds.
C30_Witness ==
    /\ NormReturned
    /\ \E n \in DOMAIN log :
          /\ log[n].case = "not_eq"
          /\ log[n].before.lower < log[n].before.upper
          /\ log[n].C.lower < log[n].before.lower
          /\ \E m \in DOMAIN log[n].extremas :
                log[n].extremas[m].x.d # 1 \/ log[n].extremas[m].y.d # 1
          /\ real_lt(log[n].der.lower, log[n].der.upper)

----------------------------------------------------------------------------
\* Arrays of more than one dimension: NpInterval.__getitem__ and __setitem__.

\* An ndarray is a window on a buffer of the heap: the buffer, where the
\* window starts in it, and the shape of the window (rows first). Indexing
\* with an integer gives a window on the same buffer, and a number when the
\* array has one dimension.
View(ref, offset, shape_) == [type |-> "ndarray", ref |-> ref, offset |-> offset, shape |-> shape_]

RECURSIVE Size(_)
Size(shape_) == IF shape_ = <<>> THEN 1 ELSE Head(shape_) * Size(Tail(shape_))

\* np.zeros(shape), np.asarray([v]): a new buffer and the window on all of it.
np_zeros_nd(h, shape_) == Return(Alloc(h, np_zeros(Size(shape_))), View(Len(h) + 1, 0, shape_))
np_asarray(h, v) == Return(Alloc(h, <<v>>), View(Len(h) + 1, 0, <<1>>))

\* x[at] that copies the rows into a new buffer.
ndarray__getitem__Copy(h, x, at) ==
    IF at < 0 \/ at >= Head(x.shape) THEN Raise(h, "IndexError")
    ELSE IF Len(x.shape) = 1 THEN Return(h, h[x.ref][x.offset + at + 1])
    ELSE LET n == Size(Tail(x.shape))
         IN  Return(Alloc(h, [k \in 1..n |-> h[x.ref][x.offset + at * n + k]]),
                    View(Len(h) + 1, 0, Tail(x.shape)))

\* x[at], at an integer.
ndarray__getitem__(h, x, at) ==
    IF at < 0 \/ at >= Head(x.shape) THEN Raise(h, "IndexError")
    ELSE IF Len(x.shape) = 1 THEN Return(h, h[x.ref][x.offset + at + 1])
    ELSE Return(h, View(x.ref, x.offset + at * Size(Tail(x.shape)), Tail(x.shape)))

\* x[at] = v, v an array of shape (1,): every element of x[at] becomes v[0].
ndarray__setitem__(h, x, at, v) ==
    IF at < 0 \/ at >= Head(x.shape) THEN Raise(h, "IndexError")
    ELSE LET n == Size(Tail(x.shape))
             from == x.offset + at * n
         IN  Return([h EXCEPT ![x.ref] =
                        [k \in DOMAIN @ |-> IF from < k /\ k <= from + n
                                            THEN h[v.ref][v.offset + 1] ELSE @[k]]], None)

\* NpInterval.__getitem__: NpInterval(self.lower[at], self.upper[at]).
__getitem__(h, self, at) ==
    LET lower == ndarray__getitem__(h, self.lower, at)
        upper == ndarray__getitem__(lower.heap, self.upper, at)
    IN  IF lower.exc # "none" THEN lower
        ELSE IF upper.exc # "none" THEN upper
        ELSE Return(upper.heap, NpInterval(lower.res, upper.res))

\* NpInterval.__setitem__ on windows: self.lower[at] = other.lower;
\* self.upper[at] = other.upper.
__setitem__nd(h, self, at, other) ==
    LET lower == ndarray__setitem__(h, self.lower, at, other.lower)
    IN  IF lower.exc # "none" THEN lower
        ELSE ndarray__setitem__(lower.heap, self.upper, at, other.upper)

\* I[i][j]...[l]: __getitem__ after __getitem__, for the indices of path.
RECURSIVE getitems(_, _, _)
getitems(h, self, path) ==
    IF path = <<>> THEN Return(h, self)
    ELSE LET r == __getitem__(h, self, Head(path))
         IN  IF r.exc # "none" THEN r ELSE getitems(r.heap, r.res, Tail(path))

\* I[i][j]...[l] = X: __getitem__ for all but the last index, then __setitem__.
setitem_chained(h, I, path, X) ==
    LET r == getitems(h, I, SubSeq(path, 1, Len(path) - 1))
    IN  IF r.exc # "none" THEN r
        ELSE __setitem__nd(r.heap, r.res, path[Len(path)], X)

\* test_1D .. test_4D: the number of dimensions, each of MaxLen; the intervals
\* assigned; and how many assignments are followed.
Dims == 1..4
Assignments == 1..2
\* The n-th assignment stores the interval [-1, n].
Assigned(n) == NpInterval(0 - 1, n)

\* The indices of every element of an array of the shape shape_.
Paths(shape_) == {p \in [1..Len(shape_) -> 0..(MaxLen - 1)] : \A k \in DOMAIN shape_ : p[k] < shape_[k]}

\* I = NpInterval(np.zeros(shape), np.zeros(shape))
NewZeros ==
    /\ op = "new" /\ A = None
    /\ \E ndim \in Dims :
          LET lower == np_zeros_nd(heap, [k \in 1..ndim |-> MaxLen])
              upper == np_zeros_nd(lower.heap, [k \in 1..ndim |-> MaxLen])
          IN  /\ heap' = upper.heap
              /\ A' = NpInterval(lower.res, upper.res)
    /\ op' = "zeros"
    /\ UNCHANGED <<B, R, arg, exc>>
    /\ UNCHANGED dvars

\* I[i][j]...[l] = NpInterval(np.asarray([lo]), np.asarray([up]))
SetItemChained ==
    /\ op \in {"zeros", "setitem_chained"} /\ exc = "none"
    /\ (Len(heap) - 2) \div 2 + 1 \in Assignments
    /\ \E path \in Paths(A.lower.shape), x \in {Assigned((Len(heap) - 2) \div 2 + 1)} :
          LET lower == np_asarray(heap, x.lower)
              upper == np_asarray(lower.heap, x.upper)
              X == NpInterval(lower.res, upper.res)
              r == setitem_chained(upper.heap, A, path, X)
          IN  /\ heap' = r.heap
              /\ exc' = r.exc
              /\ B' = X
              /\ arg' = Tuple(path)
    /\ op' = "setitem_chained"
    /\ UNCHANGED <<A, R>>
    /\ UNCHANGED dvars

ItemNext == NewZeros \/ SetItemChained

SpecItem == Init /\ [][ItemNext]_allvars

\* What reading I[i][j]...[l] gives: the two numbers, or the exception.
ReadBack(h, I, path) ==
    LET r == getitems(h, I, path)
    IN  IF r.exc # "none" THEN r.exc ELSE <<r.res.lower, r.res.upper>>

\* C25: after I[at] = X, also with chained indices, reading I at the same
\* indices gives the lower and the upper bound of X, and reading at any other
\* indices gives what it gave before.
C25_SetGetRoundTrip ==
    [][ op' = "setitem_chained" =>
            /\ exc' = "none"
            /\ \A path \in Paths(A.lower.shape) :
                  ReadBack(heap', A', path) =
                      IF path = arg'.items
                      THEN <<heap'[B'.lower.ref][1], heap'[B'.upper.ref][1]>>
                      ELSE ReadBack(heap, A, path)
      ]_allvars

\* An array of four dimensions has been assigned into twice, at different
\* places, and both places read back what was assigned.
C25_Witness ==
    /\ op = "setitem_chained" /\ exc = "none"
    /\ Len(arg.items) = 4
    /\ Len(heap) = 6
    /\ ReadBack(heap, A, arg.items) = <<0 - 1, 2>>
    /\ \E path \in Paths(A.lower.shape) :
          path # arg.items /\ ReadBack(heap, A, path) = <<0 - 1, 1>>

\* ------------------------------------------------------------------------
\* Dropout in evaluation mode (layers/dropout.py).  Probabilities are exact
\* fractions num/den and the scaled values are fractions in lowest terms.
\* ------------------------------------------------------------------------

Fraction(num, den) ==
    With(Gcd(IF num < 0 THEN 0 - num ELSE num, den),
         LAMBDA g : [num |-> num \div g, den |-> den \div g])

frac_le(x, y) == x.num * y.den <= y.num * x.den

\* 1. - p_dropout
retention(p_dropout) == Fraction(p_dropout.den - p_dropout.num, p_dropout.den)

\* scalar * array, element by element.
scalar_mul(q, x) == [i \in 1..Len(x) |-> Fraction(q.num * x[i], q.den)]

\* _get_output that keeps the dropped share of the input.
_get_outputDropped(self, layer_input) ==
    Done(self, scalar_mul(self.p_dropout, layer_input), <<>>)

_get_output(self, layer_input) ==
    Done(self, scalar_mul(retention(self.p_dropout), layer_input), <<>>)

\* dropout(layer_input, p_dropout) of an interval: both bounds are scaled by
\* the retention probability.
dropout(layer_input, p_dropout) ==
    Done(None,
         NumInterval(scalar_mul(retention(p_dropout), layer_input.lower),
                     scalar_mul(retention(p_dropout), layer_input.upper)),
         <<>>)

Dropout(p_dropout) == [type |-> "Dropout", p_dropout |-> p_dropout]

\* 0.5 is the default of Dropout, 0.8 the probability of the tests; 3/2 is a
\* value the constructor accepts although it is no probability.
Probabilities ==
    {Fraction(0, 1), Fraction(1, 2), Fraction(4, 5), Fraction(1, 1), Fraction(3, 2)}

Inputs == UNION {[1..n -> (0 - MaxVal)..MaxVal] : n \in 1..MaxLen}

IntervalInputs ==
    UNION {{NumInterval([i \in 1..n |-> b[i].lower], [i \in 1..n |-> b[i].upper]) :
                b \in [1..n -> Boxes]} : n \in 1..MaxLen}

GetOutput ==
    /\ pc = "idle"
    /\ \E p_dropout \in Probabilities, layer_input \in Inputs :
          \E r \in {_get_output(Dropout(p_dropout), layer_input)} :
              Ran("_get_output", [self |-> Dropout(p_dropout), layer_input |-> layer_input], r)
    /\ UNCHANGED <<network, layers, incep, results>>
    /\ UNCHANGED vars

DropoutInterval ==
    /\ pc = "idle"
    /\ \E p_dropout \in Probabilities, layer_input \in IntervalInputs :
          \E r \in {dropout(layer_input, p_dropout)} :
              Ran("dropout", [self |-> Dropout(p_dropout), layer_input |-> layer_input], r)
    /\ UNCHANGED <<network, layers, incep, results>>
    /\ UNCHANGED vars

DropoutNext == GetOutput \/ DropoutInterval

SpecDropout == Init /\ [][DropoutNext]_allvars

\* y = (1 - p) * x, stated without division.
Retained(y, p, x) == y.num * p.den = (p.den - p.num) * x * y.den

IsProbability(p) == 0 <= p.num /\ p.num <= p.den

\* C26: in evaluation mode the output of Dropout is (1 - p_dropout) times the
\* input at every element; for an interval input the lower bound of the result
\* is (1 - p_dropout) times the lower bound and the upper bound (1 - p_dropout)
\* times the upper bound, and for p_dropout in [0, 1] the lower bound of the
\* result is at most its upper bound.
C26_DropoutScales ==
    /\ pc = "_get_output" =>
          /\ dexc = "none"
          /\ Len(val) = Len(inp.layer_input)
          /\ \A i \in 1..Len(val) : Retained(val[i], inp.self.p_dropout, inp.layer_input[i])
    /\ pc = "dropout" =>
          /\ dexc = "none"
          /\ Len(val.lower) = Len(inp.layer_input.lower)
          /\ Len(val.upper) = Len(inp.layer_input.upper)
          /\ \A i \in 1..Len(val.lower) :
                /\ Retained(val.lower[i], inp.self.p_dropout, inp.layer_input.lower[i])
                /\ Retained(val.upper[i], inp.self.p_dropout, inp.layer_input.upper[i])
                /\ IsProbability(inp.self.p_dropout) => frac_le(val.lower[i], val.upper[i])

C26_Witness ==
    /\ pc = "dropout"
    /\ inp.self.p_dropout = Fraction(4, 5)
    /\ Len(val.lower) = MaxLen
    /\ val.lower[1] = Fraction(0 - 1, 5)
    /\ val.upper[1] = Fraction(1, 5)

\* ------------------------------------------------------------------------
\* simple_neuron_deleter (algorithm/simple_neuron_deleter.py).  The weights of
\* a fully connected layer are a matrix W of shape[0] rows and shape[1]
\* columns; p and layer_limit are exact fractions.
\* ------------------------------------------------------------------------

\* Order of Python tuples (val, row, layer_id).
tuple_lt(a, b) ==
    \/ a[1] < b[1]
    \/ a[1] = b[1] /\ a[2] < b[2]
    \/ a[1] = b[1] /\ a[2] = b[2] /\ a[3] < b[3]

row_value(row) == SumTo([c \in 1..Len(row) |-> IF row[c] < 0 THEN 0 - row[c] ELSE row[c]], Len(row))

\* One tuple (val, row, layer_id) for every row of W.
list_of_percentage_rows(layer_id, layer) ==
    [r \in 1..Len(layer.W) |-> <<row_value(layer.W[r]), r - 1, layer_id>>]

\* The row of W is set to zero.
delete_row(layer, row) ==
    SetAttr(layer, "W",
            [r \in 1..Len(layer.W) |->
                IF r = row + 1 THEN np_full(Len(layer.W[r]), 0) ELSE layer.W[r]])

isinstance_FullyConnectedLayer(layer) == layer.kind = "FullyConnectedLayer"

RECURSIVE all_rows_from(_, _)
all_rows_from(weighted_layers, i) ==
    IF i >= Len(weighted_layers) THEN <<>>
    ELSE (IF isinstance_FullyConnectedLayer(weighted_layers[i + 1])
          THEN list_of_percentage_rows(i, weighted_layers[i + 1])
          ELSE <<>>) \o all_rows_from(weighted_layers, i + 1)

neurons_for_layer_of(weighted_layers) ==
    [i \in 1..Len(weighted_layers) |->
        IF isinstance_FullyConnectedLayer(weighted_layers[i])
        THEN Len(weighted_layers[i].W[1]) ELSE 0]

RECURSIVE sorted_from(_)
sorted_from(S) ==
    IF S = {} THEN <<>>
    ELSE With(CHOOSE m \in S : \A x \in S \ {m} : tuple_lt(m, x),
              LAMBDA m : <<m>> \o sorted_from(S \ {m}))

\* sorted(all_rows): the tuples of all_rows are distinct.
sorted(xs) == sorted_from({xs[j] : j \in 1..Len(xs)}) \o <<>>

\* The test of the break with > for >=.
enough_deletedLate(deleted_in_general, p, neurons_in_general) ==
    deleted_in_general * p.den > p.num * neurons_in_general

\* deleted_in_general >= p * neurons_in_general
enough_deleted(deleted_in_general, p, neurons_in_general) ==
    deleted_in_general * p.den >= p.num * neurons_in_general

\* 1 + deleted_for_layer[layer_id] > layer_limit * neurons_for_layer[i], with
\* i the value the first loop left behind.
over_layer_limit(c, st, layer_id) ==
    (1 + st.deleted_for_layer[layer_id + 1]) * c.layer_limit.den
        > c.layer_limit.num * c.neurons_for_layer[c.i + 1]

Step(kind, t, st) ==
    [kind |-> kind, val |-> t[1], row |-> t[2], layer_id |-> t[3],
     deleted_for_layer |-> st.deleted_for_layer[t[3] + 1]]

deleted(c, st, t) ==
    [weighted_layers |-> [st.weighted_layers EXCEPT ![t[3] + 1] = delete_row(@, t[2])],
     deleted_for_layer |-> [st.deleted_for_layer EXCEPT ![t[3] + 1] = @ + 1],
     deleted_in_general |-> st.deleted_in_general + 1,
     steps |-> Append(st.steps, Step("delete", t, st))]

skipped(c, st, t) == [st EXCEPT !.steps = Append(@, Step("skip", t, st))]

RECURSIVE delete_from(_, _, _)
delete_from(c, j, st) ==
    IF j > Len(c.all_rows) THEN st
    ELSE IF enough_deleted(st.deleted_in_general, c.p, c.neurons_in_general) THEN st
    ELSE With(IF over_layer_limit(c, st, c.all_rows[j][3])
              THEN skipped(c, st, c.all_rows[j])
              ELSE deleted(c, st, c.all_rows[j]),
              LAMBDA st2 : delete_from(c, j + 1, st2))

InUnit(q) == 0 <= q.num /\ q.num <= q.den

simple_neuron_deleter(net, config) ==
    LET p == config[1]
        layer_limit == config[2]
        weighted_layers == net.weighted_layers
    IN  IF ~InUnit(p) \/ ~InUnit(layer_limit) THEN Failed(net, "AssertionError", <<>>)
        ELSE With([all_rows |-> sorted(all_rows_from(weighted_layers, 0)),
                   neurons_for_layer |-> neurons_for_layer_of(weighted_layers),
                   neurons_in_general |->
                       SumTo(neurons_for_layer_of(weighted_layers), Len(weighted_layers)),
                   i |-> Len(weighted_layers) - 1,
                   p |-> p, layer_limit |-> layer_limit],
                  LAMBDA c :
                      With(delete_from(c, 1,
                                       [weighted_layers |-> weighted_layers,
                                        deleted_for_layer |-> [i \in 1..Len(weighted_layers) |-> 0],
                                        deleted_in_general |-> 0,
                                        steps |-> <<>>]),
                           LAMBDA st :
                               Done([net EXCEPT !.weighted_layers = st.weighted_layers],
                                    None, st.steps)))

Weights == {0 - 1, 2}

DeleterLayers ==
    UNION {{FullyConnectedLayer([r \in 1..n_in |-> np_full(n_out, w[r])]) :
                w \in [1..n_in -> Weights], n_out \in 1..MaxLen} : n_in \in 1..MaxLen}
        \cup {ConvolutionalLayer(1)}

Depths == 0..2

DeleterNetworks ==
    UNION {{[weighted_layers |-> ls] : ls \in [1..n -> DeleterLayers]} : n \in Depths}

ConfigValues ==
    {Fraction(0 - 1, 2), Fraction(0, 1), Fraction(1, 2), Fraction(1, 1), Fraction(3, 2)}

SimpleNeuronDeleter ==
    /\ pc = "idle"
    /\ \E net \in DeleterNetworks, p \in ConfigValues, layer_limit \in ConfigValues :
          \E r \in {simple_neuron_deleter(net, <<p, layer_limit>>)} :
              /\ Ran("simple_neuron_deleter", [network |-> net, config |-> <<p, layer_limit>>], r)
              /\ network' = r.self
    /\ UNCHANGED <<layers, incep, results>>
    /\ UNCHANGED vars

DeleterNext == SimpleNeuronDeleter

SpecDeleter == Init /\ [][DeleterNext]_allvars

DeleterRan == pc = "simple_neuron_deleter"

DeleterReturned == DeleterRan /\ dexc = "none"

Deletes == SelectSeq(log, LAMBDA s : s.kind = "delete")

StepTuple(s) == <<s.val, s.row, s.layer_id>>

\* W.shape[1] of a fully connected layer, nothing for the other layers.
NeuronsOf(layer) == IF layer.kind = "FullyConnectedLayer" THEN Len(layer.W[1]) ELSE 0

TotalNeurons(ls) == SumTo([i \in 1..Len(ls) |-> NeuronsOf(ls[i])], Len(ls))

RowTuples(ls) ==
    {<<row_value(ls[u[1]].W[u[2]]), u[2] - 1, u[1] - 1>> :
        u \in {v \in (1..Len(ls)) \X (1..MaxLen) :
                  ls[v[1]].kind = "FullyConnectedLayer" /\ v[2] <= Len(ls[v[1]].W)}}

DeletedFrom(layer_id) ==
    Cardinality({a \in 1..Len(log) : log[a].kind = "delete" /\ log[a].layer_id = layer_id})

\* C27: with p and layer_limit in [0, 1] the call returns, it deletes rows in
\* ascending order of (val, row, layer_id), every row below a deleted one was
\* deleted or passed over by the layer limit, the rows set to zero are exactly
\* the deleted ones, the number of deletions is at most ceil(p * N) with N the
\* sum of W.shape[1] over the fully connected layers, and it is 0 when p = 0;
\* with p or layer_limit outside [0, 1] the call fails with AssertionError and
\* no row has been deleted.
C27_DeleterTotal ==
    DeleterRan =>
        LET p == inp.config[1]
            layer_limit == inp.config[2]
            before == inp.network.weighted_layers
            after == network.weighted_layers
            N == TotalNeurons(before)
        IN  IF InUnit(p) /\ InUnit(layer_limit)
            THEN /\ dexc = "none"
                 /\ Len(Deletes) = 0 \/ (Len(Deletes) - 1) * p.den < p.num * N
                 /\ p.num = 0 => Len(Deletes) = 0
                 /\ \A a, b \in 1..Len(Deletes) :
                       a < b => tuple_lt(StepTuple(Deletes[a]), StepTuple(Deletes[b]))
                 /\ \A a \in 1..Len(Deletes) :
                       /\ StepTuple(Deletes[a]) \in RowTuples(before)
                       /\ \A t \in RowTuples(before) :
                             tuple_lt(t, StepTuple(Deletes[a]))
                                 => \E b \in 1..Len(log) : StepTuple(log[b]) = t
                 /\ Len(after) = Len(before)
                 /\ \A i \in 1..Len(before) :
                       IF before[i].kind = "FullyConnectedLayer"
                       THEN \A r \in 1..Len(before[i].W) :
                               after[i].W[r] =
                                   IF \E a \in 1..Len(Deletes) :
                                          Deletes[a].layer_id = i - 1 /\ Deletes[a].row = r - 1
                                   THEN np_full(Len(before[i].W[r]), 0)
                                   ELSE before[i].W[r]
                       ELSE after[i] = before[i]
            ELSE /\ dexc = "AssertionError"
                 /\ log = <<>>
                 /\ network = inp.network

C27_Witness ==
    /\ DeleterReturned
    /\ inp.config = <<Fraction(1, 2), Fraction(1, 1)>>
    /\ TotalNeurons(inp.network.weighted_layers) = 3
    /\ Len(Deletes) = 2
    /\ Deletes[1].layer_id = 1
    /\ Deletes[2].layer_id = 0
    /\ \E t \in RowTuples(inp.network.weighted_layers) :
          \A b \in 1..Len(log) : StepTuple(log[b]) # t

\* C28: from a fully connected layer L at most layer_limit * W.shape[1] of L
\* rows are deleted, whatever layers the network has and in whatever order, and
\* a row is passed over only when one more deletion would exceed the limit of
\* its own layer.
C28_LayerLimit ==
    DeleterReturned =>
        LET layer_limit == inp.config[2]
            before == inp.network.weighted_layers
        IN  /\ \A i \in 1..Len(before) :
                  DeletedFrom(i - 1) * layer_limit.den <= layer_limit.num * NeuronsOf(before[i])
            /\ \A b \in 1..Len(log) :
                  log[b].kind = "skip" =>
                      (1 + log[b].deleted_for_layer) * layer_limit.den
                          > layer_limit.num * NeuronsOf(before[log[b].layer_id + 1])

\* ------------------------------------------------------------------------
\* The Numlike base class (numlike/numlike.py) and the expressions of
\* tests/test_numlike.py, evaluated as Python 2 evaluates them.
\* ------------------------------------------------------------------------

\* Numlike(): __init__ is "pass".
Numlike == [type |-> "Numlike"]

\* Every method answers with its argument, silently.
Numlike_methodSilent(name, self, args) == Done(self, self, <<>>)

\* The body of the method or property `name` of class Numlike.
Numlike_method(name, self, args) ==
    CASE name = "__init__"    -> Done(self, None, <<>>)
      [] name = "__getitem__" -> Failed(self, "NotImplementedError", <<>>)
      [] name = "__setitem__" -> Failed(self, "NotImplementedError", <<>>)
      [] name = "shape"       -> Failed(self, "NotImplementedError", <<>>)
      [] name = "__add__"     -> Failed(self, "NotImplementedError", <<>>)
      [] name = "__sub__"     -> Failed(self, "NotImplementedError", <<>>)
      [] name = "__mul__"     -> Failed(self, "NotImplementedError", <<>>)
      [] name = "__div__"     -> Failed(self, "NotImplementedError", <<>>)
      [] name = "__rdiv__"    -> Failed(self, "NotImplementedError", <<>>)
      [] name = "reciprocal"  -> Failed(self, "NotImplementedError", <<>>)
      [] name = "neg"         -> Failed(self, "NotImplementedError", <<>>)
      [] name = "exp"         -> Failed(self, "NotImplementedError", <<>>)
      [] name = "square"      -> Failed(self, "NotImplementedError", <<>>)
      [] name = "power"       -> Failed(self, "NotImplementedError", <<>>)
      [] name = "dot"         -> Failed(self, "NotImplementedError", <<>>)
      [] name = "max"         -> Failed(self, "NotImplementedError", <<>>)
      [] name = "amax"        -> Failed(self, "NotImplementedError", <<>>)
      [] name = "reshape"     -> Failed(self, "NotImplementedError", <<>>)
      [] name = "flatten"     -> Failed(self, "NotImplementedError", <<>>)
      [] name = "sum"         -> Failed(self, "NotImplementedError", <<>>)
      [] name = "abs"         -> Failed(self, "NotImplementedError", <<>>)
      [] name = "T"           -> Failed(self, "NotImplementedError", <<>>)
      [] name = "from_shape"  -> Failed(self, "NotImplementedError", <<>>)
      [] name = "eval"        -> Failed(self, "NotImplementedError", <<>>)

\* The names the class body defines.
Numlike_dict ==
    {"__init__", "__getitem__", "__setitem__", "shape", "__add__", "__sub__", "__mul__",
     "__div__", "__rdiv__", "reciprocal", "neg", "exp", "square", "power", "dot", "max",
     "amax", "reshape", "flatten", "sum", "abs", "T", "from_shape", "eval"}

\* shape and T are properties: reading the attribute runs the body.
Numlike_properties == {"shape", "T"}

\* The special methods of the operators: x + y, x - y, x * y, x / y (without
\* true division) and their reflected forms.
special(sym) ==
    CASE sym = "+" -> <<"__add__", "__radd__">>
      [] sym = "-" -> <<"__sub__", "__rsub__">>
      [] sym = "*" -> <<"__mul__", "__rmul__">>
      [] sym = "/" -> <<"__div__", "__rdiv__">>

\* The method that left sym right ends in: the method of a Numlike on the left;
\* for a float on the left, whose own method returns NotImplemented for a
\* Numlike, the reflected method of the right operand.
dispatched(e) ==
    CASE e.form = "binary" ->
             IF e.left.type = "Numlike" THEN special(e.sym)[1] ELSE special(e.sym)[2]
      [] OTHER -> e.name

\* The value of an expression of the tests.
evaluate(e) ==
    CASE e.form = "binary" ->
             IF e.left.type = "Numlike"
             THEN Numlike_method(special(e.sym)[1], e.left, <<e.right>>)
             ELSE IF special(e.sym)[2] \in Numlike_dict
                  THEN Numlike_method(special(e.sym)[2], e.right, <<e.left>>)
                  ELSE Failed(e.right, "TypeError", <<>>)
      [] e.form = "attribute" ->
             IF e.name \notin Numlike_dict THEN Failed(e.self, "AttributeError", <<>>)
             ELSE IF e.name \in Numlike_properties THEN Numlike_method(e.name, e.self, <<>>)
             ELSE Done(e.self, [type |-> "method", name |-> e.name], <<>>)
      [] e.form = "call" ->
             IF e.name \notin Numlike_dict THEN Failed(e.self, "AttributeError", <<>>)
             ELSE Numlike_method(e.name, e.self, e.args)

Operands == {Numlike} \cup {Float(v) : v \in (0 - MaxVal)..MaxVal}

Floats == Operands \ {Numlike}

MethodCall(name, args) == [form |-> "call", name |-> name, self |-> Numlike, args |-> args]

Expressions ==
    {MethodCall("__getitem__", <<at>>) : at \in 0..MaxLen}
        \cup {MethodCall("__setitem__", <<at, other>>) : at \in 0..MaxLen, other \in Floats}
        \cup {[form |-> "attribute", name |-> name, self |-> Numlike] :
                 name \in {"shape", "T", "neg", "size"}}
        \cup {[form |-> "binary", sym |-> sym, left |-> Numlike, right |-> other] :
                 sym \in {"+", "-", "*", "/"}, other \in Operands}
        \cup {[form |-> "binary", sym |-> sym, left |-> other, right |-> Numlike] :
                 sym \in {"+", "-", "*", "/"}, other \in Floats}
        \cup {MethodCall(name, <<>>) :
                 name \in {"reciprocal", "neg", "exp", "square", "amax", "flatten", "abs", "eval"}}
        \cup {MethodCall("power", <<exponent>>) : exponent \in Floats}
        \cup {MethodCall("dot", <<other>>) : other \in {<<<<1, 2>>, <<3, 4>>>>}}
        \cup {MethodCall("max", <<other>>) : other \in Operands}
        \cup {MethodCall("reshape", <<Tuple(<<1, 2, 3>>)>>)}
        \cup {MethodCall("sum", <<axis>>) : axis \in 0..1}

NewNumlike ==
    /\ pc = "idle"
    /\ \E r \in {Numlike_method("__init__", Numlike, <<>>)} :
          Ran("__init__", MethodCall("__init__", <<>>), [r EXCEPT !.res = r.self])
    /\ UNCHANGED <<network, layers, incep, results>>
    /\ UNCHANGED vars

Evaluate ==
    /\ pc = "__init__"
    /\ dexc = "none"
    /\ \E e \in Expressions :
          \E r \in {evaluate(e)} : Ran(dispatched(e), e, r)
    /\ UNCHANGED <<network, layers, incep, results>>
    /\ UNCHANGED vars

\* Numlike.from_shape(shp, neutral), a static method: no instance is needed.
FromShape ==
    /\ pc = "idle"
    /\ \E shp \in {Tuple(<<3, 4>>)}, neutral \in BOOLEAN :
          \E r \in {Numlike_method("from_shape", None, <<shp, neutral>>)} :
              Ran("from_shape", [form |-> "call", name |-> "from_shape", self |-> None,
                                 args |-> <<shp, neutral>>], r)
    /\ UNCHANGED <<network, layers, incep, results>>
    /\ UNCHANGED vars

NumlikeNext == NewNumlike \/ Evaluate \/ FromShape

SpecNumlike == Init /\ [][NumlikeNext]_allvars

BaseOperations ==
    {"__getitem__", "__setitem__", "shape", "__add__", "__sub__", "__mul__", "__div__",
     "__rdiv__", "reciprocal", "neg", "exp", "square", "power", "dot", "max", "amax",
     "reshape", "flatten", "sum", "abs", "T", "from_shape", "eval"}

\* An expression that runs the body of the operation: a call, an operator, or
\* the reading of a property.
Runs(e) == e.form # "attribute" \/ e.name \in {"shape", "T"}

\* C29: constructing a Numlike succeeds and gives the object; every one of the
\* 23 base operations is exercised, and whenever the body of one has run the
\* outcome is NotImplementedError and no value.
C29_NumlikeAbstract ==
    /\ BaseOperations \subseteq
          {dispatched(e) : e \in {x \in Expressions : Runs(x)}} \cup {"from_shape"}
    /\ pc = "__init__" => dexc = "none" /\ val = Numlike
    /\ (pc \in BaseOperations /\ Runs(inp)) => dexc = "NotImplementedError" /\ val = None

C29_Witness ==
    /\ pc = "__rdiv__"
    /\ inp.left = Float(MaxVal)
    /\ inp.right = Numlike
    /\ dexc = "NotImplementedError"

====
